---- MODULE Spec2Model ----
(***************************************************************************)
(* A model of aten/src/ATen/native/Normalization.cpp: the per-channel      *)
(* batch-normalisation engine (statistics collector, forward transformer,  *)
(* backward engine) and the backend selector _batch_norm_impl_index with   *)
(* its reverse routing _batch_norm_impl_index_backward.                    *)
(*                                                                         *)
(* Numbers.  A scalar_t / accscalar_t value is a pair <<n, d>>:            *)
(*   d > 0   the finite value n/d in lowest terms,                         *)
(*   <<1,0>> +inf,  <<-1,0>> -inf,  <<0,0>> NaN,                           *)
(* with the IEEE-754 rules for the non-finite values (x/0, inf-inf,        *)
(* 0*inf, sqrt of a negative).  Finite arithmetic is exact: rounding and   *)
(* the sign of zero are not modelled.                                      *)
(***************************************************************************)
EXTENDS Integers, Sequences, FiniteSets, TLC

VARIABLES
    args,          \* the arguments the caller passes to the routine under study
    running_mean,  \* the caller's persistent running-mean buffer (optional tensor)
    running_var,   \* the caller's persistent running-var buffer (optional tensor)
    ret,           \* what the last call returned, and what it did on the way
    calls          \* number of calls made so far

vars == <<args, running_mean, running_var, ret, calls>>

----------------------------------------------------------------------------
(* Bounds of the model *)

MaxN == 2
MaxC == 2
MaxL == 2
MaxCalls == 2

----------------------------------------------------------------------------
(* Floating-point values *)

Abs(x) == IF x < 0 THEN -x ELSE x

Sign(x) == IF x > 0 THEN 1 ELSE IF x < 0 THEN -1 ELSE 0

RECURSIVE GCD(_, _)
GCD(a, b) == IF b = 0 THEN a ELSE GCD(b, a % b)

Norm(n, d) ==
    IF d = 0 THEN <<Sign(n), 0>>
    ELSE LET g == GCD(Abs(n), Abs(d))
             s == IF d < 0 THEN -1 ELSE 1
         IN  <<(s * n) \div g, (s * d) \div g>>

R(k) == <<k, 1>>
Frac(n, d) == Norm(n, d)
NaN == <<0, 0>>
PosInf == <<1, 0>>
NegInf == <<-1, 0>>

IsNaN(a) == a = NaN
IsFinite(a) == a[2] # 0
IsZero(a) == \E x \in {a} : x[2] # 0 /\ x[1] = 0

\* Each operation evaluates its operands once (x \in {a} binds the value) and
\* then applies the rule for those values.
NegV(x) == <<-x[1], x[2]>>

Neg(a) == CHOOSE r \in {NegV(x) : x \in {a}} : TRUE

AddV(x, y) ==
    IF IsNaN(x) \/ IsNaN(y) THEN NaN
    ELSE IF ~IsFinite(x) THEN (IF ~IsFinite(y) /\ y # x THEN NaN ELSE x)
    ELSE IF ~IsFinite(y) THEN y
    ELSE Norm(x[1] * y[2] + y[1] * x[2], x[2] * y[2])

Add(a, b) == CHOOSE r \in {AddV(x, y) : x \in {a}, y \in {b}} : TRUE

Sub(a, b) == CHOOSE r \in {AddV(x, NegV(y)) : x \in {a}, y \in {b}} : TRUE

MulV(x, y) ==
    IF IsNaN(x) \/ IsNaN(y) THEN NaN
    ELSE IF ~IsFinite(x) \/ ~IsFinite(y)
         THEN <<Sign(x[1]) * Sign(y[1]), 0>>
    ELSE Norm(x[1] * y[1], x[2] * y[2])

Mul(a, b) == CHOOSE r \in {MulV(x, y) : x \in {a}, y \in {b}} : TRUE

InvV(x) ==
    IF IsNaN(x) THEN NaN
    ELSE IF ~IsFinite(x) THEN R(0)
    ELSE IF x[1] = 0 THEN PosInf
    ELSE Norm(x[2], x[1])

\* a / b: x/0 is +-inf for x # 0 and NaN for x = 0
Div(a, b) == CHOOSE r \in {MulV(x, InvV(y)) : x \in {a}, y \in {b}} : TRUE

LessV(x, y) ==
    /\ ~IsNaN(x) /\ ~IsNaN(y)
    /\ IF ~IsFinite(x) \/ ~IsFinite(y)
       THEN (x = NegInf /\ y # NegInf) \/ (y = PosInf /\ x # PosInf)
       ELSE x[1] * y[2] < y[1] * x[2]

Less(a, b) == \E x \in {a}, y \in {b} : LessV(x, y)

\* a >= b
Geq(a, b) == \E x \in {a}, y \in {b} : ~IsNaN(x) /\ ~IsNaN(y) /\ ~LessV(x, y)

\* The least k in lo..hi with k*k >= m, by bisection.
RECURSIVE RootSearch(_, _, _)
RootSearch(m, lo, hi) ==
    IF lo >= hi THEN lo
    ELSE IF ((lo + hi) \div 2) * ((lo + hi) \div 2) >= m
         THEN RootSearch(m, lo, (lo + hi) \div 2)
         ELSE RootSearch(m, ((lo + hi) \div 2) + 1, hi)

\* The least k with k*k >= m (46340 is the largest root of a 32-bit square).
CeilRoot(m) == RootSearch(m, 0, IF m > 46340 THEN 46340 ELSE m)

SqrtV(x) ==
    IF IsNaN(x) \/ x = NegInf THEN NaN
    ELSE IF x = PosInf THEN PosInf
    ELSE IF x[1] < 0 THEN NaN
    ELSE Norm(CeilRoot(x[1] * x[2]), x[2])

\* std::sqrt: exact when the argument is the square of a rational, otherwise
\* rounded up to the next multiple of 1/d.
Sqrt(a) == CHOOSE r \in {SqrtV(x) : x \in {a}} : TRUE

----------------------------------------------------------------------------
(* Sequences *)

\* acc + s[1] + s[2] + ..., accumulated left to right as a serial kernel does.
RECURSIVE Accumulate(_, _)
Accumulate(acc, s) ==
    CHOOSE r \in {IF t = <<>> THEN x ELSE Accumulate(AddV(x, t[1]), Tail(t)) : x \in {acc}, t \in {s}} : TRUE

RECURSIVE Flatten(_)
Flatten(ss) ==
    CHOOSE r \in {IF t = <<>> THEN <<>> ELSE t[1] \o Flatten(Tail(t)) : t \in {ss}} : TRUE

----------------------------------------------------------------------------
(* Tensors *)

\* An optional 1-d tensor: defined() and, when defined, its elements and
\* whether it is contiguous (stride 1).
Undefined == [defined |-> FALSE, data |-> <<>>, contig |-> TRUE]

Vec(data) == [defined |-> TRUE, data |-> data, contig |-> TRUE]

numel(t) == Len(t.data)

\* An input of shape (N, C, H, W) with image size L = H*W: data[n][c][i] is the
\* element at batch n, channel c, image position i; layout says how the view
\* is laid over its storage.
Layouts == {"contiguous", "channels_last", "strided"}

NoTensor == [N |-> 0, C |-> 0, L |-> 0, layout |-> "contiguous", data |-> <<>>]

Indices(t) == (1..t.N) \X (1..t.C) \X (1..t.L)

TensorNumel(t) == t.N * t.C * t.L

\* Storage offset (0-based) of element (n, c, i) under each layout.
ContiguousOffset(t, n, c, i) == (n - 1) * t.C * t.L + (c - 1) * t.L + (i - 1)

ChannelsLastOffset(t, n, c, i) == (n - 1) * t.L * t.C + (i - 1) * t.C + (c - 1)

StridedOffset(t, n, c, i) == (c - 1) * t.L * t.N + (i - 1) * t.N + (n - 1)

Offset(t, n, c, i) ==
    CASE t.layout = "contiguous" -> ContiguousOffset(t, n, c, i)
      [] t.layout = "channels_last" -> ChannelsLastOffset(t, n, c, i)
      [] OTHER -> StridedOffset(t, n, c, i)

\* Tensor::is_contiguous(): the strides agree with the standard layout on every
\* dimension of size other than 1.
is_contiguous(t) ==
    \A x \in Indices(t) : Offset(t, x[1], x[2], x[3]) = ContiguousOffset(t, x[1], x[2], x[3])

\* Tensor::is_contiguous(at::MemoryFormat::ChannelsLast)
is_contiguous_channels_last(t) ==
    \A x \in Indices(t) : Offset(t, x[1], x[2], x[3]) = ChannelsLastOffset(t, x[1], x[2], x[3])

\* data_ptr(): the storage behind the view, by offset.
data_ptr(t) ==
    [o \in 0..(TensorNumel(t) - 1) |->
        CHOOSE v \in {t.data[x[1]][x[2]][x[3]] :
                         x \in {y \in Indices(t) : Offset(t, y[1], y[2], y[3]) = o}} : TRUE]

\* The view of the given layout over a storage.
ViewOf(N, C, L, layout, mem) ==
    CHOOSE t \in
        {[shape EXCEPT !.data =
            [n \in 1..N |-> [c \in 1..C |-> [i \in 1..L |-> m[Offset(shape, n, c, i)]]]]] :
            shape \in {[N |-> N, C |-> C, L |-> L, layout |-> layout, data |-> <<>>]},
            m \in {mem}} : TRUE

\* input.select(1, f), read in iteration order.
select(t, f) == Flatten([n \in 1..t.N |-> t.data[n][f]])

----------------------------------------------------------------------------
(* Statistics collector *)

\* A faulty variant of InvStd below: the test for a zero sum is left out.
InvStd_unguarded(var, epsilon) == Div(R(1), Sqrt(Add(var, epsilon)))

\* struct InvStd: 0 when var and epsilon are both 0, else 1/sqrt(var + epsilon).
InvStd(var, epsilon) ==
    IF ~IsZero(var) \/ ~IsZero(epsilon)
    THEN Div(R(1), Sqrt(Add(var, epsilon)))
    ELSE R(0)

\* struct Var: the variance itself.
Var(var, epsilon) == var

VarTransform(kind, var, epsilon) ==
    IF kind = "InvStd" THEN InvStd(var, epsilon) ELSE Var(var, epsilon)

\* n = input.numel() / n_input
reduction_count(input) == TensorNumel(input) \div input.C

\* at::mean(input, reduce_dims)[f]
batch_mean(input, f) == Div(Accumulate(R(0), select(input, f)), R(reduction_count(input)))

\* var_sum += (i - mean) * (i - mean) over the channel
var_sum(input, f) ==
    CHOOSE r \in {Accumulate(R(0), [k \in 1..Len(in) |-> Mul(Sub(in[k], mean), Sub(in[k], mean))]) :
                     mean \in {batch_mean(input, f)}, in \in {select(input, f)}} : TRUE

\* the variance handed to VarTransform: var_sum / n
biased_var(input, f) == Div(var_sum(input, f), R(reduction_count(input)))

\* A faulty variant of the estimator below: it divides by n as well.
unbiased_var_divides_by_n(input, f) == Div(var_sum(input, f), R(reduction_count(input)))

\* unbiased_var = var_sum / (n - 1)
unbiased_var(input, f) == Div(var_sum(input, f), R(reduction_count(input) - 1))

\* A faulty variant of the blend below: the two weights are exchanged.
blend_weights_swapped(momentum, stat, running) ==
    Add(Mul(Sub(R(1), momentum), stat), Mul(momentum, running))

\* momentum * stat + (1 - momentum) * running
blend(momentum, stat, running) ==
    Add(Mul(momentum, stat), Mul(Sub(R(1), momentum), running))

\* running_mean_a[f] = ... for every channel, when running_mean is defined
update_running_mean(input, rmean, momentum) ==
    IF rmean.defined
    THEN [rmean EXCEPT !.data =
            [f \in 1..input.C |-> blend(momentum, batch_mean(input, f), rmean.data[f])]]
    ELSE rmean

\* running_var_a[f] = ... for every channel, when running_var is defined
update_running_var(input, rvar, momentum) ==
    IF rvar.defined
    THEN [rvar EXCEPT !.data =
            [f \in 1..input.C |-> blend(momentum, unbiased_var(input, f), rvar.data[f])]]
    ELSE rvar

\* The whole collector: the two returned tensors and the buffers as it leaves them.
batch_norm_cpu_update_stats_template(kind, input, rmean, rvar, momentum, eps) ==
    [save_mean |-> Vec([f \in 1..input.C |-> batch_mean(input, f)]),
     save_var_transform |->
        Vec([f \in 1..input.C |-> VarTransform(kind, biased_var(input, f), eps)]),
     running_mean |-> update_running_mean(input, rmean, momentum),
     running_var |-> update_running_var(input, rvar, momentum)]

\* batch_norm_update_stats_cpu: the collector with the Var transform and eps 0.
batch_norm_update_stats_cpu(self, rmean, rvar, momentum) ==
    batch_norm_cpu_update_stats_template("Var", self, rmean, rvar, momentum, R(0))

----------------------------------------------------------------------------
(* Forward transformer *)

\* inv_var = 1 / std::sqrt(var_data[c] + eps): no guard against a zero sum
inv_var(variance, eps, c) == Div(R(1), Sqrt(Add(variance.data[c], eps)))

weight_v(weight, c) == IF weight.defined THEN weight.data[c] ELSE R(1)

bias_v(bias, c) == IF bias.defined THEN bias.data[c] ELSE R(0)

\* alpha[c] = inv_var * weight_v
alpha_term(weight, variance, eps, c) == Mul(inv_var(variance, eps, c), weight_v(weight, c))

\* A faulty variant of the constant term below: the weight is left out.
beta_term_without_weight(weight, bias, mean, variance, eps, c) ==
    Sub(bias_v(bias, c), Mul(mean.data[c], inv_var(variance, eps, c)))

\* beta[c] = bias_v - mean_data[c] * inv_var * weight_v
beta_term(weight, bias, mean, variance, eps, c) ==
    Sub(bias_v(bias, c), Mul(Mul(mean.data[c], inv_var(variance, eps, c)), weight_v(weight, c)))

batch_norm_cpu_inference_collect_linear_and_constant_terms(n_channel, weight, bias, mean, variance, eps) ==
    [alpha |-> [c \in 1..n_channel |-> alpha_term(weight, variance, eps, c)],
     beta |-> [c \in 1..n_channel |-> beta_term(weight, bias, mean, variance, eps, c)]]

\* What at::empty hands out before anything is written to it.
Uninitialized == NaN

\* The writes applied to memory in order: each is <<offset, value>>.
RECURSIVE Store(_, _)
Store(mem, writes) ==
    CHOOSE r \in {IF w = <<>> THEN m ELSE Store([m EXCEPT ![w[1][1]] = w[1][2]], Tail(w)) :
                     m \in {mem}, w \in {writes}} : TRUE

\* int64_t offset = n * image_size * n_channel + i * n_channel + c   (0-based n, i, c)
channels_last_offset(n, i, c, image_size, n_channel) ==
    n * image_size * n_channel + i * n_channel + c

\* int64_t offset = n * image_size + i   (n_channel == 1)
single_channel_offset(n, i, image_size) == n * image_size + i

\* The loop nest of the channel-last fast path, as the writes it makes in order.
channels_last_writes(input, terms, input_data) ==
    LET n_batch == input.N
        n_channel == input.C
        image_size == (TensorNumel(input) \div n_batch) \div n_channel
    IN  IF n_channel # 1
        THEN [k \in 1..(n_batch * image_size * n_channel) |->
                LET n == (k - 1) \div (image_size * n_channel)
                    i == ((k - 1) % (image_size * n_channel)) \div n_channel
                    c == (k - 1) % n_channel
                    offset == channels_last_offset(n, i, c, image_size, n_channel)
                IN  <<offset, Add(Mul(input_data[offset], terms.alpha[c + 1]), terms.beta[c + 1])>>]
        ELSE [k \in 1..(n_batch * image_size) |->
                LET n == (k - 1) \div image_size
                    i == (k - 1) % image_size
                    offset == single_channel_offset(n, i, image_size)
                IN  <<offset, Add(Mul(input_data[offset], terms.alpha[1]), terms.beta[1])>>]

batch_norm_cpu_inference_channels_last(input, weight, bias, mean, variance, eps) ==
    CHOOSE output \in
        {ViewOf(input.N, input.C, input.L, "channels_last",
                Store([o \in 0..(TensorNumel(input) - 1) |-> Uninitialized],
                      channels_last_writes(input, terms, input_data))) :
            terms \in {batch_norm_cpu_inference_collect_linear_and_constant_terms(
                          input.C, weight, bias, mean, variance, eps)},
            input_data \in {data_ptr(input)}} : TRUE

\* The kernel behind batch_norm_cpu_inference_contiguous_stub: the same fused
\* coefficients applied to a standard-layout input.
batch_norm_cpu_inference_contiguous(input, weight, bias, mean, variance, eps) ==
    CHOOSE output \in
        {[input EXCEPT !.layout = "contiguous",
                       !.data = [n \in 1..input.N |-> [c \in 1..input.C |-> [i \in 1..input.L |->
                                   Add(Mul(input.data[n][c][i], terms.alpha[c]), terms.beta[c])]]]] :
            terms \in {batch_norm_cpu_inference_collect_linear_and_constant_terms(
                          input.C, weight, bias, mean, variance, eps)}} : TRUE

\* return ((input - mean) * invstd) * weight + bias;
generic_kernel(input, mean, invstd, weight, bias) ==
    Add(Mul(Mul(Sub(input, mean), invstd), weight), bias)

\* 1 / at::sqrt(running_var + eps)
running_invstd(rvar, eps) ==
    Vec([c \in 1..numel(rvar) |-> Div(R(1), Sqrt(Add(rvar.data[c], eps)))])

\* The broadcast path: per-channel vectors viewed along the channel axis.
generic_path(input, weight, bias, save_mean, save_invstd, rmean, rvar, train, eps) ==
    CHOOSE output \in
        {[input EXCEPT !.layout = "contiguous",
                       !.data = [n \in 1..input.N |-> [c \in 1..input.C |-> [i \in 1..input.L |->
                                   generic_kernel(input.data[n][c][i], mean.data[c], invstd.data[c],
                                                  weight_v(weight, c), bias_v(bias, c))]]]] :
            mean \in {IF train THEN save_mean ELSE rmean},
            invstd \in {IF train THEN save_invstd ELSE running_invstd(rvar, eps)}} : TRUE

\* if (!train && input.is_contiguous() && ...)
use_contiguous_path(input, weight, bias, rmean, rvar, train) ==
    /\ ~train
    /\ is_contiguous(input)
    /\ (~weight.defined \/ weight.contig)
    /\ (~bias.defined \/ bias.contig)
    /\ rmean.contig
    /\ rvar.contig

\* if (!train && input.is_contiguous(at::MemoryFormat::ChannelsLast) && ...)
use_channels_last_path(input, weight, bias, rmean, rvar, train) ==
    /\ ~train
    /\ is_contiguous_channels_last(input)
    /\ (~weight.defined \/ weight.contig)
    /\ (~bias.defined \/ bias.contig)
    /\ rmean.contig
    /\ rvar.contig

\* A faulty variant of the selection below: the channel-last test comes first.
forward_path_channels_last_first(input, weight, bias, rmean, rvar, train) ==
    IF use_channels_last_path(input, weight, bias, rmean, rvar, train) THEN "channels_last"
    ELSE IF use_contiguous_path(input, weight, bias, rmean, rvar, train) THEN "contiguous"
    ELSE "generic"

\* The path the template takes: its two early returns, then the broadcast path.
forward_path(input, weight, bias, rmean, rvar, train) ==
    IF use_contiguous_path(input, weight, bias, rmean, rvar, train) THEN "contiguous"
    ELSE IF use_channels_last_path(input, weight, bias, rmean, rvar, train) THEN "channels_last"
    ELSE "generic"

batch_norm_cpu_transform_input_template(input, weight, bias, save_mean, save_invstd, rmean, rvar, train, eps) ==
    CHOOSE r \in
        {[path |-> path,
          output |->
            CASE path = "contiguous" ->
                    batch_norm_cpu_inference_contiguous(input, weight, bias, rmean, rvar, eps)
              [] path = "channels_last" ->
                    batch_norm_cpu_inference_channels_last(input, weight, bias, rmean, rvar, eps)
              [] OTHER ->
                    generic_path(input, weight, bias, save_mean, save_invstd, rmean, rvar, train, eps),
          save_mean |-> save_mean,
          save_invstd |-> save_invstd] :
            path \in {forward_path(input, weight, bias, rmean, rvar, train)}} : TRUE

\* A faulty variant of batch_norm_cpu below: the statistics are collected, and the
\* running buffers updated, in evaluation mode as well.
batch_norm_cpu_always_collects(self, weight, bias, rmean, rvar, train, momentum, eps) ==
    CHOOSE r \in
        {batch_norm_cpu_transform_input_template(
             self, weight, bias, save_stats.save_mean, save_stats.save_var_transform,
             save_stats.running_mean, save_stats.running_var, train, eps)
         @@ [running_mean |-> save_stats.running_mean,
             running_var |-> save_stats.running_var] :
            save_stats \in {batch_norm_cpu_update_stats_template(
                               "InvStd", self, rmean, rvar, momentum, eps)}} : TRUE

\* The caller's tensors batch_norm_cpu writes to: the running buffers that are
\* defined, through running_mean_a[f] and running_var_a[f], when training; the
\* output and the saved statistics are tensors it allocates.
batch_norm_cpu_written(rmean, rvar, train) ==
    IF train
    THEN {n \in {"running_mean", "running_var"} :
             \/ (n = "running_mean" /\ rmean.defined)
             \/ (n = "running_var" /\ rvar.defined)}
    ELSE {}

\* batch_norm_cpu: statistics first when training, then the transform.
batch_norm_cpu(self, weight, bias, rmean, rvar, train, momentum, eps) ==
    IF ~train
    THEN batch_norm_cpu_transform_input_template(
             self, weight, bias, Undefined, Undefined, rmean, rvar, train, eps)
         @@ [running_mean |-> rmean, running_var |-> rvar]
    ELSE CHOOSE r \in
            {batch_norm_cpu_transform_input_template(
                 self, weight, bias, save_stats.save_mean, save_stats.save_var_transform,
                 save_stats.running_mean, save_stats.running_var, train, eps)
             @@ [running_mean |-> save_stats.running_mean,
                 running_var |-> save_stats.running_var] :
                save_stats \in {batch_norm_cpu_update_stats_template(
                                   "InvStd", self, rmean, rvar, momentum, eps)}} : TRUE

----------------------------------------------------------------------------
(* Backward engine *)

\* An output of the backward engine: whether it was allocated, its elements and
\* how many times each element has been written.
Unallocated == [defined |-> FALSE, data |-> <<>>, writes |-> <<>>]

\* at::empty_like(input, LEGACY_CONTIGUOUS_MEMORY_FORMAT)
empty_like_input(input) ==
    [defined |-> TRUE,
     data |-> [n \in 1..input.N |-> [c \in 1..input.C |-> [i \in 1..input.L |-> Uninitialized]]],
     writes |-> [n \in 1..input.N |-> [c \in 1..input.C |-> [i \in 1..input.L |-> 0]]]]

\* at::empty_like(weight, LEGACY_CONTIGUOUS_MEMORY_FORMAT)
empty_like_weight(weight) ==
    [defined |-> TRUE,
     data |-> [f \in 1..numel(weight) |-> Uninitialized],
     writes |-> [f \in 1..numel(weight) |-> 0]]

\* A serial kernel writing val[n][i] into every element of slice f of grad_input.
write_slice(gi, f, val) ==
    CHOOSE r \in
        {[g EXCEPT !.data = [n \in DOMAIN g.data |->
                               [g.data[n] EXCEPT ![f] = [i \in DOMAIN g.data[n][f] |-> v[n][i]]]],
                   !.writes = [n \in DOMAIN g.writes |->
                               [g.writes[n] EXCEPT ![f] = [i \in DOMAIN g.writes[n][f] |-> @[i] + 1]]]] :
            g \in {gi}, v \in {val}} : TRUE

\* grad_weight_a[f] = v, grad_bias_a[f] = v
write_entry(g, f, v) ==
    [g EXCEPT !.data[f] = v, !.writes[f] = @ + 1]

\* at::sum(grad_out_, reduce_dims)[f]
grad_sum(grad_out, f) == Accumulate(R(0), select(grad_out, f))

\* mean and invstd of channel f: saved statistics when training, running ones otherwise
backward_mean(a, f) == IF a.train THEN a.save_mean.data[f] ELSE a.running_mean.data[f]

backward_invstd(a, f) ==
    IF a.train THEN a.save_invstd.data[f]
    ELSE Div(R(1), Sqrt(Add(a.running_var.data[f], a.eps)))

\* dotp += (i - mean) * go over the channel
dotp(a, f) ==
    CHOOSE r \in
        {Accumulate(R(0), [k \in 1..Len(in) |-> Mul(Sub(in[k], mean), go[k])]) :
            in \in {select(a.input, f)}, go \in {select(a.grad_out, f)},
            mean \in {backward_mean(a, f)}} : TRUE

\* A faulty variant of k below: invstd is applied once instead of twice.
projection_k_single_invstd(a, f) ==
    Div(Mul(dotp(a, f), backward_invstd(a, f)), R(reduction_count(a.input)))

\* scalar_t k = (scalar_t) dotp * invstd * invstd / n
projection_k(a, f) ==
    Div(Mul(Mul(dotp(a, f), backward_invstd(a, f)), backward_invstd(a, f)),
        R(reduction_count(a.input)))

\* scalar_t grad_mean = sum_a[f] / n
grad_mean(a, f) == Div(grad_sum(a.grad_out, f), R(reduction_count(a.input)))

\* First pass of the training branch: grad_in = (i - mean) * k
projection_pass(gi, a, f) ==
    CHOOSE r \in
        {write_slice(gi, f, [b \in 1..a.input.N |-> [i \in 1..a.input.L |->
                                Mul(Sub(a.input.data[b][f][i], mean), k)]]) :
            mean \in {backward_mean(a, f)}, k \in {projection_k(a, f)}} : TRUE

\* Second pass of the training branch: grad_in = (go - grad_mean - gi) * invstd * w
centering_pass(gi, a, f) ==
    CHOOSE r \in
        {write_slice(first, f, [b \in 1..a.input.N |-> [i \in 1..a.input.L |->
                                  Mul(Mul(Sub(Sub(a.grad_out.data[b][f][i], gm),
                                              first.data[b][f][i]), invstd), w)]]) :
            first \in {gi}, gm \in {grad_mean(a, f)},
            invstd \in {backward_invstd(a, f)}, w \in {weight_v(a.weight, f)}} : TRUE

\* The evaluation branch: grad_in = go * invstd * w
eval_pass(gi, a, f) ==
    CHOOSE r \in
        {write_slice(gi, f, [b \in 1..a.input.N |-> [i \in 1..a.input.L |->
                                Mul(Mul(a.grad_out.data[b][f][i], invstd), w)]]) :
            invstd \in {backward_invstd(a, f)}, w \in {weight_v(a.weight, f)}} : TRUE

\* The if (grad_input_mask[0]) block of one channel.
grad_input_channel(gi, a, f) ==
    IF a.train THEN centering_pass(projection_pass(gi, a, f), a, f)
    ELSE eval_pass(gi, a, f)

\* One iteration of the loop over channels: the body for channel f.
backward_channel(g, a, f) ==
    [grad_input |->
        IF a.grad_input_mask[1] THEN grad_input_channel(g.grad_input, a, f) ELSE g.grad_input,
     grad_weight |->
        IF a.grad_input_mask[2]
        THEN write_entry(g.grad_weight, f, Mul(dotp(a, f), backward_invstd(a, f)))
        ELSE g.grad_weight,
     grad_bias |->
        IF a.grad_input_mask[3]
        THEN write_entry(g.grad_bias, f, grad_sum(a.grad_out, f))
        ELSE g.grad_bias]

\* for (int64_t f = b_begin; f < b_end; ++f)   (channels numbered from 1 here)
RECURSIVE backward_range(_, _, _, _)
backward_range(g, a, b_begin, b_end) ==
    IF b_begin >= b_end THEN g
    ELSE CHOOSE r \in {backward_range(backward_channel(h, a, b_begin), a, b_begin + 1, b_end) :
                          h \in {g}} : TRUE

\* A faulty variant of the allocation below: the mask is ignored.
backward_allocate_all(a) ==
    [grad_input |-> empty_like_input(a.input),
     grad_weight |-> empty_like_weight(a.weight),
     grad_bias |-> empty_like_weight(a.weight)]

\* The three outputs as allocated before the loop.
backward_allocate(a) ==
    [grad_input |-> IF a.grad_input_mask[1] THEN empty_like_input(a.input) ELSE Unallocated,
     grad_weight |-> IF a.grad_input_mask[2] THEN empty_like_weight(a.weight) ELSE Unallocated,
     grad_bias |-> IF a.grad_input_mask[3] THEN empty_like_weight(a.weight) ELSE Unallocated]

batch_norm_backward_cpu_template(a) ==
    backward_range(backward_allocate(a), a, 1, a.input.C + 1)

\* batch_norm_backward_cpu: the template on the caller's tensors.
batch_norm_backward_cpu(grad_out, self, weight, rmean, rvar, save_mean, save_invstd, train, eps, grad_input_mask) ==
    batch_norm_backward_cpu_template(
        [input |-> self, grad_out |-> grad_out, weight |-> weight,
         running_mean |-> rmean, running_var |-> rvar,
         save_mean |-> save_mean, save_invstd |-> save_invstd,
         train |-> train, eps |-> eps, grad_input_mask |-> grad_input_mask])

----------------------------------------------------------------------------
(* Backend selector *)

MIOPEN_DIM_MAX == 5
MaxBatchCuDNNTraining == 880801
MaxBatchCuDNNEval == 65535
MinVersionCuDNN == 5110

NoError == [kind |-> "none", arg |-> "", expected |-> 0, actual |-> 0]

\* A faulty variant of the check below: its message gives the two counts the
\* wrong way round.
check_dims_counts_swapped(arg_name, expected, actual) ==
    IF actual = expected THEN NoError
    ELSE [kind |-> "dims", arg |-> arg_name, expected |-> actual, actual |-> expected]

\* TORCH_CHECK(actual == expected, arg_name, " should contain ", expected, " elements not ", actual)
check_dims_match_num_input_features(arg_name, expected, actual) ==
    IF actual = expected THEN NoError
    ELSE [kind |-> "dims", arg |-> arg_name, expected |-> expected, actual |-> actual]

\* AT_ERROR(name, " must be defined in evaluation mode")
must_be_defined(arg_name) ==
    [kind |-> "missing", arg |-> arg_name, expected |-> 0, actual |-> 0]

\* A faulty variant of the check below: it demands the statistic in training
\* mode as well.
check_running_stat_always_required(arg_name, t, num_features, training) ==
    IF t.defined THEN check_dims_match_num_input_features(arg_name, num_features, numel(t))
    ELSE must_be_defined(arg_name)

\* if (t.defined()) check...; else if (!training) AT_ERROR(...)
check_running_stat(arg_name, t, num_features, training) ==
    IF t.defined THEN check_dims_match_num_input_features(arg_name, num_features, numel(t))
    ELSE IF ~training THEN must_be_defined(arg_name)
    ELSE NoError

\* if (t.defined()) check...
check_affine(arg_name, t, num_features) ==
    IF t.defined THEN check_dims_match_num_input_features(arg_name, num_features, numel(t))
    ELSE NoError

\* The checks in the order the function makes them; the first that fails throws.
validate(a, rmean, rvar) ==
    LET e1 == check_running_stat("running_mean", rmean, a.num_features, a.training)
        e2 == check_running_stat("running_var", rvar, a.num_features, a.training)
        e3 == check_affine("weight", a.weight, a.num_features)
        e4 == check_affine("bias", a.bias, a.num_features)
    IN  IF e1 # NoError THEN e1
        ELSE IF e2 # NoError THEN e2
        ELSE IF e3 # NoError THEN e3
        ELSE e4

\* (running_mean.defined() && running_var.defined())
\*   || (!running_mean.defined() && !running_var.defined() && training)
stats_both_or_neither(a, rmean, rvar) ==
    \/ rmean.defined /\ rvar.defined
    \/ ~rmean.defined /\ ~rvar.defined /\ a.training

use_cudnn(a, rmean, rvar) ==
    /\ a.is_cuda
    /\ a.scalar_type # "BFloat16" /\ a.weight_scalar_type # "BFloat16"
    /\ (a.scalar_type # "Half" \/ a.weight_scalar_type = "Float")
    /\ a.weight.defined /\ a.bias.defined
    /\ stats_both_or_neither(a, rmean, rvar)
    /\ a.dim >= 3
    /\ \/ a.size0 <= MaxBatchCuDNNTraining /\ a.training
       \/ a.size0 <= MaxBatchCuDNNEval /\ ~a.training
    /\ a.hooks.compiledWithCuDNN
    /\ Geq(a.eps, a.hooks.batchnormMinEpsilonCuDNN)
    /\ a.cudnn_enabled /\ a.hooks.versionCuDNN >= MinVersionCuDNN

use_miopen(a, rmean, rvar) ==
    /\ a.is_cuda
    /\ a.dim <= MIOPEN_DIM_MAX
    /\ a.scalar_type # "Double"
    /\ a.scalar_type # "BFloat16"
    /\ a.weight_scalar_type # "Half"
    /\ a.weight.defined /\ a.bias.defined
    /\ stats_both_or_neither(a, rmean, rvar)
    /\ a.hooks.compiledWithMIOpen
    /\ a.cudnn_enabled

\* What a forward call leaves behind when it throws during validation.
Rejected(e, rmean, rvar) ==
    [status |-> "error", error |-> e, invoked |-> <<>>, impl_index |-> -1,
     reserve |-> "none", allocated |-> {}, output |-> NoTensor,
     running_mean |-> rmean, running_var |-> rvar]

\* at::cudnn_batch_norm: an external backend; it returns its own reserve tensor.
cudnn_batch_norm(a, rmean, rvar) ==
    [status |-> "ok", error |-> NoError, invoked |-> <<"cudnn">>, impl_index |-> 1,
     reserve |-> "cudnn_reserve", allocated |-> {"output", "save_mean", "save_var", "reserve"},
     output |-> NoTensor, running_mean |-> rmean, running_var |-> rvar]

\* at::miopen_batch_norm: an external backend; reserve is the empty byte tensor.
miopen_batch_norm(a, rmean, rvar) ==
    [status |-> "ok", error |-> NoError, invoked |-> <<"miopen">>, impl_index |-> 2,
     reserve |-> "empty", allocated |-> {"reserve", "output", "save_mean", "save_var"},
     output |-> NoTensor, running_mean |-> rmean, running_var |-> rvar]

\* at::native_batch_norm: batch_norm_cpu for a CPU input, the device kernel otherwise.
native_batch_norm(a, rmean, rvar) ==
    IF a.is_cuda
    THEN [status |-> "ok", error |-> NoError, invoked |-> <<"native">>, impl_index |-> 0,
          reserve |-> "empty", allocated |-> {"reserve", "output"},
          output |-> NoTensor, running_mean |-> rmean, running_var |-> rvar]
    ELSE CHOOSE x \in
            {[status |-> "ok", error |-> NoError, invoked |-> <<"native">>, impl_index |-> 0,
              reserve |-> "empty", allocated |-> {"reserve", "output"},
              output |-> r.output, running_mean |-> r.running_mean,
              running_var |-> r.running_var] :
                r \in {batch_norm_cpu(a.input, a.weight, a.bias, rmean, rvar,
                                      a.training, a.momentum, a.eps)}} : TRUE

\* A faulty variant of the chain below: miopen is tried before cudnn.
select_backend_miopen_first(a, rmean, rvar) ==
    IF use_miopen(a, rmean, rvar) THEN miopen_batch_norm(a, rmean, rvar)
    ELSE IF use_cudnn(a, rmean, rvar) THEN cudnn_batch_norm(a, rmean, rvar)
    ELSE native_batch_norm(a, rmean, rvar)

\* The chain of early returns after validation.
select_backend(a, rmean, rvar) ==
    IF use_cudnn(a, rmean, rvar) THEN cudnn_batch_norm(a, rmean, rvar)
    ELSE IF use_miopen(a, rmean, rvar) THEN miopen_batch_norm(a, rmean, rvar)
    ELSE native_batch_norm(a, rmean, rvar)

_batch_norm_impl_index(a, rmean, rvar) ==
    LET e == validate(a, rmean, rvar)
    IN  IF e # NoError THEN Rejected(e, rmean, rvar)
        ELSE select_backend(a, rmean, rvar)

\* A faulty variant of the routing below: tags 1 and 2 reach each other's
\* backward, and an unknown tag falls through to the native one.
backward_routing_crossed(impl_index, reservedSpace) ==
    IF impl_index = 1
    THEN [status |-> "ok", invoked |-> <<"miopen">>, reserve |-> "none"]
    ELSE IF impl_index = 2
    THEN [status |-> "ok", invoked |-> <<"cudnn">>, reserve |-> reservedSpace]
    ELSE [status |-> "ok", invoked |-> <<"native">>, reserve |-> "none"]

\* The backward routing: which backward is invoked for impl_index, and the
\* reserve tensor it is handed (only the cudnn backward takes one).
_batch_norm_impl_index_backward(impl_index, reservedSpace) ==
    IF impl_index = 0
    THEN [status |-> "ok", invoked |-> <<"native">>, reserve |-> "none"]
    ELSE IF impl_index = 1
    THEN [status |-> "ok", invoked |-> <<"cudnn">>, reserve |-> reservedSpace]
    ELSE IF impl_index = 2
    THEN [status |-> "ok", invoked |-> <<"miopen">>, reserve |-> "none"]
    ELSE [status |-> "internal_assert", invoked |-> <<>>, reserve |-> "none"]

----------------------------------------------------------------------------
(* Inputs the model draws from *)

Fill(k, v) == [j \in 1..k |-> v]

\* An optional per-channel vector: absent, or k copies of v for each length k.
OptionalVecs(v) == {Undefined} \cup {Vec(Fill(k, v)) : k \in 1..MaxC}

\* The input whose element at (n, c, i) is base + step * (its standard offset).
MkInput(N, C, L, layout, base, step) ==
    LET shape == [N |-> N, C |-> C, L |-> L, layout |-> layout, data |-> <<>>]
    IN  [shape EXCEPT !.data = [n \in 1..N |-> [c \in 1..C |-> [i \in 1..L |->
                                  R(base + step * ContiguousOffset(shape, n, c, i))]]]]

\* The vector base, base + step, base + 2*step, ... of length k.
Ramp(k, base, step) == [j \in 1..k |-> R(base + step * (j - 1))]

\* The same vector seen through a stride other than 1.
NonContiguous(v) == [v EXCEPT !.contig = FALSE]

\* An optional vector of the given kind holding data.
KindVec(kind, data) ==
    CASE kind = "absent" -> Undefined
      [] kind = "contiguous" -> Vec(data)
      [] OTHER -> NonContiguous(Vec(data))

ScalarTypes == {"Float", "Double", "Half", "BFloat16"}

Hooks ==
    [compiledWithCuDNN : BOOLEAN,
     versionCuDNN : {MinVersionCuDNN - 1, MinVersionCuDNN},
     compiledWithMIOpen : BOOLEAN,
     batchnormMinEpsilonCuDNN : {Frac(1, 100000)}]

AllCapableHooks ==
    [compiledWithCuDNN |-> TRUE, versionCuDNN |-> MinVersionCuDNN,
     compiledWithMIOpen |-> TRUE, batchnormMinEpsilonCuDNN |-> Frac(1, 100000)]

\* Calls that exercise validation: a CPU input, or a CUDA input every backend
\* could serve, with every presence and length of the four optional vectors.
ValidationCalls ==
    {[is_cuda |-> cuda, scalar_type |-> "Float",
      weight_scalar_type |-> IF w.defined THEN "Float" ELSE "Undefined",
      dim |-> 4, size0 |-> 2, num_features |-> C,
      input |-> IF cuda THEN NoTensor ELSE MkInput(2, C, 1, "contiguous", 0, 4),
      weight |-> w, bias |-> b, running_mean |-> rm, running_var |-> rv,
      training |-> tr, momentum |-> Frac(1, 10), eps |-> R(5),
      cudnn_enabled |-> TRUE, hooks |-> AllCapableHooks] :
        cuda \in BOOLEAN, C \in 1..MaxC, tr \in BOOLEAN,
        w \in OptionalVecs(R(1)), b \in OptionalVecs(R(0)),
        rm \in OptionalVecs(R(0)), rv \in OptionalVecs(R(1))}

\* Calls that exercise selection: a CUDA input of one channel, each optional
\* vector absent or of the right length, every combination of what the
\* capability checks read.
SelectionCalls ==
    {[is_cuda |-> TRUE, scalar_type |-> st,
      weight_scalar_type |-> IF w.defined THEN wst ELSE "Undefined",
      dim |-> d, size0 |-> s0, num_features |-> 1,
      input |-> NoTensor,
      weight |-> w, bias |-> b, running_mean |-> rm, running_var |-> rv,
      training |-> tr, momentum |-> Frac(1, 10), eps |-> e,
      cudnn_enabled |-> en, hooks |-> h] :
        st \in ScalarTypes, wst \in {"Float", "Half", "BFloat16"},
        d \in {2, 3, MIOPEN_DIM_MAX + 1},
        s0 \in {MaxBatchCuDNNEval, MaxBatchCuDNNEval + 1, MaxBatchCuDNNTraining + 1},
        tr \in BOOLEAN, e \in {R(0), R(5)}, en \in BOOLEAN, h \in Hooks,
        w \in {Undefined, Vec(Fill(1, R(1)))}, b \in {Undefined, Vec(Fill(1, R(0)))},
        rm \in {Undefined, Vec(Fill(1, R(0)))}, rv \in {Undefined, Vec(Fill(1, R(1)))}}

----------------------------------------------------------------------------
(* The selector as a state machine: one forward call, then its backward *)

FwdIdle ==
    [status |-> "idle", error |-> NoError, invoked |-> <<>>, impl_index |-> -1,
     reserve |-> "none", allocated |-> {}, output |-> NoTensor]

BwdIdle ==
    [status |-> "idle", invoked |-> <<>>, reserve |-> "none", impl_index |-> -1]

SelInit ==
    /\ args \in ValidationCalls \cup SelectionCalls
    /\ running_mean = args.running_mean
    /\ running_var = args.running_var
    /\ ret = [fwd |-> FwdIdle, bwd |-> BwdIdle]
    /\ calls = 0

\* The caller invokes _batch_norm_impl_index on its arguments and buffers.
ImplIndex ==
    /\ ret.fwd.status = "idle"
    /\ \E r \in {_batch_norm_impl_index(args, running_mean, running_var)} :
           /\ ret' = [ret EXCEPT !.fwd =
                        [status |-> r.status, error |-> r.error, invoked |-> r.invoked,
                         impl_index |-> r.impl_index, reserve |-> r.reserve,
                         allocated |-> r.allocated, output |-> r.output]]
           /\ running_mean' = r.running_mean
           /\ running_var' = r.running_var
    /\ calls' = calls + 1
    /\ UNCHANGED args

\* The caller invokes _batch_norm_impl_index_backward with some impl_index
\* (the one forward returned, or any other) and the reserve forward returned.
ImplIndexBackward ==
    /\ ret.fwd.status = "ok"
    /\ ret.bwd.status = "idle"
    /\ \E impl_index \in -1..3 :
          \E r \in {_batch_norm_impl_index_backward(impl_index, ret.fwd.reserve)} :
              ret' = [ret EXCEPT !.bwd =
                        [status |-> r.status, invoked |-> r.invoked,
                         reserve |-> r.reserve, impl_index |-> impl_index]]
    /\ calls' = calls + 1
    /\ UNCHANGED <<args, running_mean, running_var>>

SelNext == ImplIndex \/ ImplIndexBackward

SpecSel == SelInit /\ [][SelNext]_vars

----------------------------------------------------------------------------
(* Properties of the selector *)

ParamNames == {"running_mean", "running_var", "weight", "bias"}

\* The order in which the function examines its optional vectors.
CheckOrder == <<"running_mean", "running_var", "weight", "bias">>

Param(name) ==
    CASE name = "running_mean" -> args.running_mean
      [] name = "running_var" -> args.running_var
      [] name = "weight" -> args.weight
      [] OTHER -> args.bias

WrongCount(name) == Param(name).defined /\ numel(Param(name)) # args.num_features

MissingInEval(name) ==
    name \in {"running_mean", "running_var"} /\ ~Param(name).defined /\ ~args.training

FwdDone == ret.fwd.status # "idle"

\* The call threw, no backend ran, nothing was allocated, the buffers are as passed.
FailedEarly ==
    /\ ret.fwd.status = "error"
    /\ ret.fwd.invoked = <<>>
    /\ ret.fwd.allocated = {}
    /\ running_mean = args.running_mean
    /\ running_var = args.running_var

\* The error names the parameter with the expected and the actual count.
NamesCount(name) ==
    ret.fwd.error = [kind |-> "dims", arg |-> name,
                     expected |-> args.num_features, actual |-> numel(Param(name))]

NamesMissing(name) ==
    ret.fwd.error = [kind |-> "missing", arg |-> name, expected |-> 0, actual |-> 0]

\* The first parameter, in the order of examination, that fails its check.
FirstFailing ==
    CheckOrder[CHOOSE k \in 1..4 :
                  /\ WrongCount(CheckOrder[k]) \/ MissingInEval(CheckOrder[k])
                  /\ \A j \in 1..(k - 1) :
                        ~(WrongCount(CheckOrder[j]) \/ MissingInEval(CheckOrder[j]))]

\* C1 as stated: every optional vector present with a wrong element count makes
\* the call fail early with an error naming that very vector and its counts.
C1_EveryMismatchNamed ==
    FwdDone => \A p \in ParamNames : WrongCount(p) => FailedEarly /\ NamesCount(p)

\* C1: a call with some optional vector of the wrong element count fails before
\* any backend is invoked and before anything is allocated, leaving running_mean
\* and running_var untouched; its error is that of the first failing check in
\* the order running_mean, running_var, weight, bias: the vector's name with the
\* expected and actual counts, or the missing-statistic error of an earlier
\* absent running statistic in evaluation mode.
C1_FirstMismatchRejected ==
    (FwdDone /\ \E p \in ParamNames : WrongCount(p)) =>
        /\ FailedEarly
        /\ IF WrongCount(FirstFailing) THEN NamesCount(FirstFailing)
           ELSE NamesMissing(FirstFailing)

\* A CPU training call with a weight of the wrong length and good statistics was
\* rejected naming weight: native would otherwise have updated the buffers.
C1_Witness ==
    /\ FwdDone /\ ~args.is_cuda /\ args.training
    /\ args.running_mean.defined /\ args.running_var.defined
    /\ WrongCount("weight") /\ FirstFailing = "weight"
    /\ NamesCount("weight") /\ FailedEarly

StatAbsent == ~args.running_mean.defined \/ ~args.running_var.defined

\* C2: in evaluation mode an absent running_mean or running_var makes the call
\* fail before any backend runs and with no buffer changed; in training mode
\* absence is never the reason for a rejection, and a call whose present vectors
\* all have the right count goes through.
C2_EvalNeedsRunningStats ==
    FwdDone =>
        /\ (~args.training /\ StatAbsent) => FailedEarly
        /\ args.training => ret.fwd.error.kind # "missing"
        /\ (args.training /\ StatAbsent /\ \A p \in ParamNames : ~WrongCount(p)) =>
               ret.fwd.status = "ok"

\* An evaluation call with running_var alone absent was rejected for it.
C2_Witness ==
    /\ FwdDone /\ ~args.training
    /\ args.running_mean.defined /\ ~WrongCount("running_mean")
    /\ ~args.running_var.defined
    /\ NamesMissing("running_var") /\ FailedEarly

\* A training call without running statistics went through to a backend.
C2_WitnessTraining ==
    FwdDone /\ args.training /\ StatAbsent /\ ret.fwd.status = "ok" /\ Len(ret.fwd.invoked) = 1

BothOrNeither ==
    \/ args.running_mean.defined /\ args.running_var.defined
    \/ ~args.running_mean.defined /\ ~args.running_var.defined /\ args.training

\* Every condition the cudnn candidate needs, read off the arguments.
CudnnConditions ==
    {args.is_cuda,
     args.scalar_type # "BFloat16",
     args.weight_scalar_type # "BFloat16",
     args.scalar_type # "Half" \/ args.weight_scalar_type = "Float",
     args.weight.defined,
     args.bias.defined,
     BothOrNeither,
     args.dim >= 3,
     IF args.training THEN args.size0 <= MaxBatchCuDNNTraining
                      ELSE args.size0 <= MaxBatchCuDNNEval,
     args.hooks.compiledWithCuDNN,
     ~Less(args.eps, args.hooks.batchnormMinEpsilonCuDNN),
     args.cudnn_enabled,
     args.hooks.versionCuDNN >= MinVersionCuDNN}

\* Every condition the miopen candidate needs.
MiopenConditions ==
    {args.is_cuda,
     args.dim <= MIOPEN_DIM_MAX,
     args.scalar_type # "Double",
     args.scalar_type # "BFloat16",
     args.weight_scalar_type # "Half",
     args.weight.defined,
     args.bias.defined,
     BothOrNeither,
     args.hooks.compiledWithMIOpen,
     args.cudnn_enabled}

ExpectedTag ==
    IF CudnnConditions = {TRUE} THEN 1
    ELSE IF MiopenConditions = {TRUE} THEN 2
    ELSE 0

BackendOf(tag) ==
    CASE tag = 1 -> "cudnn"
      [] tag = 2 -> "miopen"
      [] OTHER -> "native"

\* C3: a validated forward call invokes exactly one backend: cudnn (tag 1) iff
\* every cudnn condition holds, else miopen (tag 2) iff every miopen condition
\* holds, else native (tag 0); the returned tag names the backend that ran.
C3_BackendPriority ==
    (FwdDone /\ ret.fwd.status = "ok") =>
        /\ ret.fwd.impl_index = ExpectedTag
        /\ ret.fwd.invoked = <<BackendOf(ret.fwd.impl_index)>>

\* Both candidates were fully capable and cudnn ran.
C3_Witness ==
    /\ FwdDone /\ ret.fwd.status = "ok"
    /\ CudnnConditions = {TRUE} /\ MiopenConditions = {TRUE}
    /\ ret.fwd.impl_index = 1 /\ ret.fwd.invoked = <<"cudnn">>

\* cudnn missed a single condition (the batch size) and miopen ran instead.
C3_WitnessPartial ==
    /\ FwdDone /\ ret.fwd.status = "ok"
    /\ args.size0 > MaxBatchCuDNNEval /\ ~args.training
    /\ args.hooks.compiledWithCuDNN /\ args.hooks.versionCuDNN >= MinVersionCuDNN
    /\ args.dim >= 3 /\ args.cudnn_enabled
    /\ ret.fwd.impl_index = 2 /\ ret.fwd.invoked = <<"miopen">>

BwdDone == ret.bwd.status # "idle"

\* C4: forward only returns tags 0, 1 and 2; backward called with one of them
\* invokes the backward of that backend, the same backend that ran forward when
\* the tag is forward's, and tag 1 hands the reserve tensor over unchanged;
\* called with any other tag it invokes nothing and fails the internal assertion.
C4_BackwardRouting ==
    /\ (FwdDone /\ ret.fwd.status = "ok") => ret.fwd.impl_index \in {0, 1, 2}
    /\ BwdDone =>
          IF ret.bwd.impl_index \in {0, 1, 2}
          THEN /\ ret.bwd.status = "ok"
               /\ ret.bwd.invoked = <<BackendOf(ret.bwd.impl_index)>>
               /\ ret.bwd.impl_index = ret.fwd.impl_index => ret.bwd.invoked = ret.fwd.invoked
               /\ ret.bwd.impl_index = 1 => ret.bwd.reserve = ret.fwd.reserve
          ELSE /\ ret.bwd.status = "internal_assert"
               /\ ret.bwd.invoked = <<>>

\* Forward ran cudnn and backward, given tag 1, ran cudnn with forward's reserve.
C4_Witness ==
    /\ BwdDone /\ ret.fwd.impl_index = 1 /\ ret.bwd.impl_index = 1
    /\ ret.bwd.invoked = <<"cudnn">> /\ ret.bwd.reserve = "cudnn_reserve"

\* Backward was given a tag outside the set and failed the assertion.
C4_WitnessUnsupported ==
    BwdDone /\ ret.bwd.impl_index = 3 /\ ret.bwd.status = "internal_assert"

----------------------------------------------------------------------------
(* The statistics collector as a state machine: training calls repeated on  *)
(* one batch, through batch_norm_update_stats_cpu or through batch_norm_cpu *)

\* A batch of each shape up to the bounds, constant (step 0) or not, with each
\* running buffer absent or present.
StatsCalls ==
    {[input |-> MkInput(N, C, L, "contiguous", base, step),
      momentum |-> m, eps |-> e,
      running_mean |-> KindVec(rm, Fill(C, R(0))),
      running_var |-> KindVec(rv, Fill(C, R(1)))] :
        N \in 1..MaxN, C \in 1..MaxC, L \in 1..MaxL, base \in {0, 3}, step \in {0, 2},
        m \in {Frac(1, 10), Frac(1, 2)}, e \in {R(0), R(5)},
        rm \in {"absent", "contiguous"}, rv \in {"absent", "contiguous"}}

StatsIdle ==
    [op |-> "idle", save_mean |-> Undefined, save_var_transform |-> Undefined,
     prev_mean |-> Undefined, prev_var |-> Undefined]

StatsInit ==
    /\ args \in StatsCalls
    /\ running_mean = args.running_mean
    /\ running_var = args.running_var
    /\ ret = StatsIdle
    /\ calls = 0

\* One call of batch_norm_update_stats_cpu on the batch and the buffers.
BatchNormUpdateStatsCpu ==
    /\ calls < MaxCalls
    /\ \E r \in {batch_norm_update_stats_cpu(args.input, running_mean, running_var,
                                            args.momentum)} :
           /\ ret' = [op |-> "batch_norm_update_stats_cpu",
                      save_mean |-> r.save_mean,
                      save_var_transform |-> r.save_var_transform,
                      prev_mean |-> running_mean, prev_var |-> running_var]
           /\ running_mean' = r.running_mean
           /\ running_var' = r.running_var
    /\ calls' = calls + 1
    /\ UNCHANGED args

\* One training call of batch_norm_cpu (no weight, no bias) on the batch and the buffers.
BatchNormCpuTraining ==
    /\ calls < MaxCalls
    /\ \E r \in {batch_norm_cpu(args.input, Undefined, Undefined, running_mean, running_var,
                               TRUE, args.momentum, args.eps)} :
           /\ ret' = [op |-> "batch_norm_cpu",
                      save_mean |-> r.save_mean,
                      save_var_transform |-> r.save_invstd,
                      prev_mean |-> running_mean, prev_var |-> running_var]
           /\ running_mean' = r.running_mean
           /\ running_var' = r.running_var
    /\ calls' = calls + 1
    /\ UNCHANGED args

StatsNext == BatchNormUpdateStatsCpu \/ BatchNormCpuTraining

SpecStats == StatsInit /\ [][StatsNext]_vars

----------------------------------------------------------------------------
(* Properties of the statistics collector *)

Channels == 1..args.input.C

\* The positions of one channel, and their number n.
ChannelPositions == (1..args.input.N) \X (1..args.input.L)

Count == args.input.N * args.input.L

RECURSIVE SumFn(_, _)
SumFn(f, S) ==
    IF S = {} THEN R(0)
    ELSE LET p == CHOOSE q \in S : TRUE
         IN  Add(f[p], SumFn(f, S \ {p}))

\* The batch mean of channel c.
BatchMeanOf(c) ==
    Div(SumFn([p \in ChannelPositions |-> args.input.data[p[1]][c][p[2]]], ChannelPositions),
        R(Count))

\* varSum[c]: the sum of squared deviations of channel c from its batch mean.
VarSumOf(c) ==
    LET mu == BatchMeanOf(c)
    IN  SumFn([p \in ChannelPositions |->
                  Mul(Sub(args.input.data[p[1]][c][p[2]], mu),
                      Sub(args.input.data[p[1]][c][p[2]], mu))], ChannelPositions)

\* m*stat + (1-m)*old
BlendOnce(m, stat, old) == Add(Mul(m, stat), Mul(Sub(R(1), m), old))

\* The k-fold composition of the blend.
RECURSIVE BlendTimes(_, _, _, _)
BlendTimes(k, m, stat, old) ==
    IF k = 0 THEN old ELSE BlendOnce(m, stat, BlendTimes(k - 1, m, stat, old))

\* C5: each training-statistics call replaces every running_mean[c] by
\* m*batchMean[c] + (1-m)*running_mean[c], so after k calls on the same batch
\* the value is the k-fold blend of the initial one; an absent running_mean
\* (resp. running_var) stays absent and is never updated.
C5_RunningMeanBlend ==
    /\ running_mean.defined = args.running_mean.defined
    /\ running_var.defined = args.running_var.defined
    /\ ~args.running_mean.defined => running_mean = args.running_mean
    /\ ~args.running_var.defined => running_var = args.running_var
    /\ args.running_mean.defined =>
          \A c \in Channels :
             /\ running_mean.data[c] =
                   BlendTimes(calls, args.momentum, BatchMeanOf(c), args.running_mean.data[c])
             /\ calls >= 1 =>
                   running_mean.data[c] =
                      BlendOnce(args.momentum, BatchMeanOf(c), ret.prev_mean.data[c])

\* Momentum 0.1, initial running mean 0, batch mean 4: 0.4 after the first call
\* and 0.76 after the second.
C5_Witness ==
    /\ calls = 2
    /\ args.momentum = Frac(1, 10)
    /\ args.running_mean.defined /\ args.running_mean.data[1] = R(0)
    /\ BatchMeanOf(1) = R(4)
    /\ ret.prev_mean.data[1] = Frac(4, 10)
    /\ running_mean.data[1] = Frac(76, 100)

\* A call made without running_mean updated running_var alone.
C5_WitnessAbsent ==
    /\ calls >= 1 /\ ~args.running_mean.defined /\ running_mean = Undefined
    /\ args.running_var.defined /\ running_var # args.running_var

\* C6: with n > 1, the variance given to the VarTransform (the returned
\* save_var_transform, save_invstd for batch_norm_cpu) is varSum[c]/n, the
\* variance blended into running_var[c] is varSum[c]/(n-1), and the two differ
\* whenever varSum[c] is not zero.
C6_BiasedUnbiasedSplit ==
    (calls >= 1 /\ Count > 1) =>
        \A c \in Channels :
           /\ ret.save_var_transform.data[c] =
                 IF ret.op = "batch_norm_cpu"
                 THEN InvStd(Div(VarSumOf(c), R(Count)), args.eps)
                 ELSE Div(VarSumOf(c), R(Count))
           /\ running_var.defined =>
                 running_var.data[c] =
                    BlendOnce(args.momentum, Div(VarSumOf(c), R(Count - 1)),
                              ret.prev_var.data[c])
           /\ ~IsZero(VarSumOf(c)) =>
                 Div(VarSumOf(c), R(Count)) # Div(VarSumOf(c), R(Count - 1))

\* A batch with n = 2 and non-zero varSum: varSum/2 was returned and varSum/1
\* was blended into running_var.
C6_Witness ==
    /\ calls = 1 /\ Count = 2 /\ args.running_var.defined
    /\ ret.op = "batch_norm_update_stats_cpu"
    /\ ~IsZero(VarSumOf(1))
    /\ ret.save_var_transform.data[1] = Div(VarSumOf(1), R(2))
    /\ running_var.data[1] =
          BlendOnce(args.momentum, VarSumOf(1), args.running_var.data[1])

\* C7 as stated: with n = 1 and running_var present, a training call never
\* leaves a NaN or non-finite value in running_var.
C7_NoNaNWhenCountIsOne ==
    (calls >= 1 /\ Count = 1 /\ args.running_var.defined) =>
        \A c \in Channels : IsFinite(running_var.data[c])

\* What the code does instead: 0/0 is blended in and running_var[c] is NaN.
C7_NaNStored ==
    (calls >= 1 /\ Count = 1 /\ args.running_var.defined) =>
        \A c \in Channels : IsNaN(running_var.data[c])

C7_Witness ==
    /\ calls = 1 /\ Count = 1 /\ args.running_var.defined
    /\ args.running_var.data[1] = R(1) /\ IsNaN(running_var.data[1])

----------------------------------------------------------------------------
(* The forward transformer as a state machine: one call of batch_norm_cpu,  *)
(* or one direct call of the channel-last kernel                            *)

\* An optional affine vector: absent, contiguous or not.
AffineKinds == {"absent", "contiguous", "strided"}

\* A running statistic: contiguous or not.
StatKinds == {"contiguous", "strided"}

\* Every shape up to the bounds in every layout, with running variances that put
\* running_var + eps at zero, at a square and at a non-square.
FwdCalls ==
    {[input |-> MkInput(N, C, L, layout, 1, 1),
      weight |-> KindVec(w, Ramp(C, 2, 1)),
      bias |-> KindVec(b, Ramp(C, 1, 1)),
      running_mean |-> KindVec(rm, Ramp(C, 1, 1)),
      running_var |-> KindVec(rv, Ramp(C, v, v + 1)),
      train |-> tr, momentum |-> Frac(1, 10), eps |-> e] :
        N \in 1..MaxN, C \in 1..MaxC, L \in 1..MaxL, layout \in Layouts,
        w \in AffineKinds, b \in AffineKinds, rm \in StatKinds, rv \in StatKinds,
        v \in {0, 4}, tr \in BOOLEAN, e \in {R(0), R(5)}}

FwdCallIdle ==
    [op |-> "idle", path |-> "none", output |-> NoTensor,
     save_mean |-> Undefined, save_invstd |-> Undefined]

FwdInit ==
    /\ args \in FwdCalls
    /\ running_mean = args.running_mean
    /\ running_var = args.running_var
    /\ ret = FwdCallIdle
    /\ calls = 0

\* batch_norm_cpu on the arguments and the buffers.
BatchNormCpu ==
    /\ ret.op = "idle"
    /\ \E r \in {batch_norm_cpu(args.input, args.weight, args.bias, running_mean, running_var,
                               args.train, args.momentum, args.eps)} :
           /\ ret' = [op |-> "batch_norm_cpu", path |-> r.path, output |-> r.output,
                      save_mean |-> r.save_mean, save_invstd |-> r.save_invstd]
           /\ running_mean' = r.running_mean
           /\ running_var' = r.running_var
    /\ calls' = calls + 1
    /\ UNCHANGED args

\* batch_norm_cpu_inference_channels_last called on tensors that meet its
\* contract: evaluation mode, every tensor channel-last contiguous.
InferenceChannelsLast ==
    /\ ret.op = "idle"
    /\ ~args.train
    /\ is_contiguous_channels_last(args.input)
    /\ args.weight.contig /\ args.bias.contig
    /\ running_mean.contig /\ running_var.contig
    /\ \E output \in {batch_norm_cpu_inference_channels_last(
                         args.input, args.weight, args.bias,
                         running_mean, running_var, args.eps)} :
           ret' = [op |-> "batch_norm_cpu_inference_channels_last",
                   path |-> "channels_last", output |-> output,
                   save_mean |-> Undefined, save_invstd |-> Undefined]
    /\ calls' = calls + 1
    /\ UNCHANGED <<args, running_mean, running_var>>

FwdNext == BatchNormCpu \/ InferenceChannelsLast

SpecFwd == FwdInit /\ [][FwdNext]_vars

----------------------------------------------------------------------------
(* Properties of the forward transformer *)

\* weight, bias and the running statistics are contiguous where present.
OperandsContiguous ==
    /\ ~args.weight.defined \/ args.weight.contig
    /\ ~args.bias.defined \/ args.bias.contig
    /\ args.running_mean.contig
    /\ args.running_var.contig

ExpectedPath ==
    IF ~args.train /\ is_contiguous(args.input) /\ OperandsContiguous THEN "contiguous"
    ELSE IF ~args.train /\ is_contiguous_channels_last(args.input) /\ OperandsContiguous
    THEN "channels_last"
    ELSE "generic"

\* C8: batch_norm_cpu takes the contiguous fast path iff not training and the
\* input and every present operand are contiguous in standard layout; otherwise
\* the channel-last fast path iff not training and the input is channel-last
\* contiguous with the same conditions on the operands; otherwise the generic
\* path; a training call always takes the generic path.
C8_PathSelection ==
    ret.op = "batch_norm_cpu" =>
        /\ ret.path = ExpectedPath
        /\ args.train => ret.path = "generic"

\* An evaluation call on a channel-last input of two channels took the
\* channel-last path.
C8_Witness ==
    /\ ret.op = "batch_norm_cpu" /\ ~args.train
    /\ args.input.layout = "channels_last" /\ ~is_contiguous(args.input)
    /\ args.weight.defined /\ OperandsContiguous
    /\ ret.path = "channels_last"

\* A training call on a contiguous input with contiguous operands went generic.
C8_WitnessTraining ==
    /\ ret.op = "batch_norm_cpu" /\ args.train
    /\ is_contiguous(args.input) /\ OperandsContiguous
    /\ ret.path = "generic"

WeightOf(c) == IF args.weight.defined THEN args.weight.data[c] ELSE R(1)

BiasOf(c) == IF args.bias.defined THEN args.bias.data[c] ELSE R(0)

\* invStd[c] = 1/sqrt(running_var[c] + eps)
InvStdOf(c) == Div(R(1), Sqrt(Add(args.running_var.data[c], args.eps)))

AlphaOf(c) == Mul(InvStdOf(c), WeightOf(c))

BetaOf(c) == Sub(BiasOf(c), Mul(args.running_mean.data[c], AlphaOf(c)))

\* input*alpha[c] + beta[c]
FusedAt(x) == Add(Mul(args.input.data[x[1]][x[2]][x[3]], AlphaOf(x[2])), BetaOf(x[2]))

\* (input - mean[c])*invStd[c]*weight[c] + bias[c]
GenericAt(x) ==
    Add(Mul(Mul(Sub(args.input.data[x[1]][x[2]][x[3]], args.running_mean.data[x[2]]),
                InvStdOf(x[2])), WeightOf(x[2])), BiasOf(x[2]))

\* The channel-last kernel produced the output of an evaluation call.
ChannelsLastRan == ret.op # "idle" /\ ~args.train /\ ret.path = "channels_last"

\* Every element of the output is the fused value and is the generic value.
FusedIsGeneric ==
    /\ \A x \in Indices(args.input) :
          /\ ret.output.data[x[1]][x[2]][x[3]] = FusedAt(x)
          /\ ret.output.data[x[1]][x[2]][x[3]] = GenericAt(x)
    /\ ret.output.data =
          generic_path(args.input, args.weight, args.bias, Undefined, Undefined,
                       args.running_mean, args.running_var, FALSE, args.eps).data

PositiveVariance ==
    \A c \in 1..args.input.C : Less(R(0), Add(args.running_var.data[c], args.eps))

C9_WitnessSingleChannel ==
    /\ ChannelsLastRan /\ PositiveVariance
    /\ ret.op = "batch_norm_cpu_inference_channels_last"
    /\ args.input.C = 1 /\ args.input.N = 2 /\ args.input.L = 2
    /\ FusedIsGeneric

\* With running_var + eps = 0 the fused value is NaN where the generic one is infinite.
C9_WitnessZeroVariance ==
    /\ ChannelsLastRan /\ ~PositiveVariance
    /\ \E x \in Indices(args.input) :
          /\ IsNaN(ret.output.data[x[1]][x[2]][x[3]])
          /\ GenericAt(x) = PosInf

----------------------------------------------------------------------------
(* The backward engine as a state machine: a forward call of batch_norm_cpu *)
(* that leaves the saved statistics, then batch_norm_backward_cpu           *)

Masks == {<<gi, gw, gb>> : gi \in BOOLEAN, gw \in BOOLEAN, gb \in BOOLEAN}

\* A weight, absent or present, with a mask: grad_weight and grad_bias are only
\* asked for when there is a weight to shape them after.
WeightsAndMasks ==
    {p \in {"absent", "contiguous"} \X Masks : (p[2][2] \/ p[2][3]) => p[1] # "absent"}

\* Every shape up to the bounds with every weight and mask.
BwdCalls ==
    {[input |-> MkInput(N, C, L, "contiguous", 1, 2),
      grad_out |-> MkInput(N, C, L, "contiguous", 1, 1),
      weight |-> KindVec(wm[1], Ramp(C, 2, 1)),
      running_mean |-> Vec(Ramp(C, 1, 1)),
      running_var |-> Vec(Ramp(C, 4, 5)),
      train |-> tr, momentum |-> Frac(1, 10), eps |-> e,
      grad_input_mask |-> wm[2]] :
        N \in 1..MaxN, C \in 1..MaxC, L \in 1..MaxL, wm \in WeightsAndMasks,
        tr \in BOOLEAN, e \in {R(0), R(5)}}

BwdCallIdle ==
    [op |-> "idle", save_mean |-> Undefined, save_invstd |-> Undefined,
     grad_input |-> Unallocated, grad_weight |-> Unallocated, grad_bias |-> Unallocated]

BwdInit ==
    /\ args \in BwdCalls
    /\ running_mean = args.running_mean
    /\ running_var = args.running_var
    /\ ret = BwdCallIdle
    /\ calls = 0

\* The forward call whose saved statistics the backward call is given.
BatchNormCpuForward ==
    /\ ret.op = "idle"
    /\ \E r \in {batch_norm_cpu(args.input, args.weight, Undefined, running_mean, running_var,
                               args.train, args.momentum, args.eps)} :
           /\ ret' = [ret EXCEPT !.op = "batch_norm_cpu",
                                 !.save_mean = r.save_mean,
                                 !.save_invstd = r.save_invstd]
           /\ running_mean' = r.running_mean
           /\ running_var' = r.running_var
    /\ calls' = calls + 1
    /\ UNCHANGED args

\* batch_norm_backward_cpu on the arguments, the buffers and the saved statistics.
BatchNormBackwardCpu ==
    /\ ret.op = "batch_norm_cpu"
    /\ \E g \in {batch_norm_backward_cpu(args.grad_out, args.input, args.weight,
                                        running_mean, running_var,
                                        ret.save_mean, ret.save_invstd,
                                        args.train, args.eps, args.grad_input_mask)} :
           ret' = [ret EXCEPT !.op = "batch_norm_backward_cpu",
                              !.grad_input = g.grad_input,
                              !.grad_weight = g.grad_weight,
                              !.grad_bias = g.grad_bias]
    /\ calls' = calls + 1
    /\ UNCHANGED <<args, running_mean, running_var>>

BwdNext == BatchNormCpuForward \/ BatchNormBackwardCpu

SpecBwd == BwdInit /\ [][BwdNext]_vars

----------------------------------------------------------------------------
(* Properties of the backward engine *)

BackwardRan == ret.op = "batch_norm_backward_cpu"

\* An output is undefined, never allocated and never written when its bit is
\* unset, and allocated when its bit is set.
MaskDecidesAllocation ==
    /\ ret.grad_input.defined = args.grad_input_mask[1]
    /\ ret.grad_weight.defined = args.grad_input_mask[2]
    /\ ret.grad_bias.defined = args.grad_input_mask[3]
    /\ ~args.grad_input_mask[1] => ret.grad_input = Unallocated
    /\ ~args.grad_input_mask[2] => ret.grad_weight = Unallocated
    /\ ~args.grad_input_mask[3] => ret.grad_bias = Unallocated

\* Every element of grad_input was written k times.
GradInputWritten(k) ==
    \A x \in Indices(args.input) : ret.grad_input.writes[x[1]][x[2]][x[3]] = k

\* Every entry of the per-channel output g was written once.
EntriesWrittenOnce(g) ==
    /\ Len(g.writes) = args.input.C
    /\ \A c \in 1..args.input.C : g.writes[c] = 1

C10_WitnessEval ==
    /\ BackwardRan /\ ~args.train /\ args.input.C = 2
    /\ args.grad_input_mask = <<TRUE, TRUE, TRUE>>
    /\ GradInputWritten(1)
    /\ EntriesWrittenOnce(ret.grad_weight) /\ EntriesWrittenOnce(ret.grad_bias)

\* mean[c] and invStd[c] of the backward call: saved statistics when training,
\* running statistics otherwise.
BwdMeanOf(c) == IF args.train THEN ret.save_mean.data[c] ELSE running_mean.data[c]

BwdInvStdOf(c) ==
    IF args.train THEN ret.save_invstd.data[c]
    ELSE Div(R(1), Sqrt(Add(running_var.data[c], args.eps)))

\* sum[c]: the sum of gradOutput over the non-channel axes.
GradSumOf(c) ==
    SumFn([p \in ChannelPositions |-> args.grad_out.data[p[1]][c][p[2]]], ChannelPositions)

\* dotp[c]: the sum of (input - mean[c])*gradOutput over the non-channel axes.
DotpOf(c) ==
    SumFn([p \in ChannelPositions |->
              Mul(Sub(args.input.data[p[1]][c][p[2]], BwdMeanOf(c)),
                  args.grad_out.data[p[1]][c][p[2]])], ChannelPositions)

\* ((gradOutput_i - sum[c]/n) - (input_i - mean[c])*dotp[c]*invStd[c]^2/n)*invStd[c]*weight[c]
TrainingGradInputAt(x) ==
    Mul(Mul(Sub(Sub(args.grad_out.data[x[1]][x[2]][x[3]], Div(GradSumOf(x[2]), R(Count))),
                Div(Mul(Mul(Mul(Sub(args.input.data[x[1]][x[2]][x[3]], BwdMeanOf(x[2])),
                                DotpOf(x[2])),
                            BwdInvStdOf(x[2])),
                        BwdInvStdOf(x[2])),
                    R(Count))),
            BwdInvStdOf(x[2])),
        WeightOf(x[2]))

\* gradOutput_i*invStd[c]*weight[c]
EvalGradInputAt(x) ==
    Mul(Mul(args.grad_out.data[x[1]][x[2]][x[3]], BwdInvStdOf(x[2])), WeightOf(x[2]))

\* C11: the native backward returns, for every element of every channel c,
\* gradInput = ((gradOutput - sum[c]/n) - (input - mean[c])*dotp[c]*invStd[c]^2/n)
\* *invStd[c]*weight[c] in training mode and gradOutput*invStd[c]*weight[c] in
\* evaluation mode, and gradWeight[c] = dotp[c]*invStd[c], gradBias[c] = sum[c]
\* in both modes, with mean and invStd the saved statistics when training and
\* the running ones (invStd = 1/sqrt(running_var[c]+eps)) otherwise, and weight
\* taken as 1 when absent.
C11_BackwardFormulas ==
    BackwardRan =>
        /\ args.grad_input_mask[1] =>
              \A x \in Indices(args.input) :
                 ret.grad_input.data[x[1]][x[2]][x[3]] =
                    IF args.train THEN TrainingGradInputAt(x) ELSE EvalGradInputAt(x)
        /\ args.grad_input_mask[2] =>
              \A c \in Channels :
                 ret.grad_weight.data[c] = Mul(DotpOf(c), BwdInvStdOf(c))
        /\ args.grad_input_mask[3] =>
              \A c \in Channels : ret.grad_bias.data[c] = GradSumOf(c)

\* A training call on two batches of two channels and two positions, all three
\* outputs asked for: the projection term is not zero and the outputs are the
\* formulas' values.
C11_Witness ==
    /\ BackwardRan /\ args.train /\ args.weight.defined
    /\ args.input.N = 2 /\ args.input.C = 2 /\ args.input.L = 2
    /\ args.grad_input_mask = <<TRUE, TRUE, TRUE>>
    /\ ~IsZero(DotpOf(2)) /\ ~IsZero(BwdInvStdOf(2))
    /\ ret.grad_input.data[2][2][1] = TrainingGradInputAt(<<2, 2, 1>>)
    /\ ret.grad_input.data[2][2][1] # EvalGradInputAt(<<2, 2, 1>>)
    /\ ret.grad_weight.data[2] = Mul(DotpOf(2), BwdInvStdOf(2))
    /\ ret.grad_bias.data[2] = GradSumOf(2)

\* An evaluation call without weight: gradInput is gradOutput/sqrt(running_var+eps).
C11_WitnessEval ==
    /\ BackwardRan /\ ~args.train /\ ~args.weight.defined
    /\ args.input.C = 2 /\ args.grad_input_mask[1]
    /\ running_var.data[1] = R(4) /\ args.eps = R(0)
    /\ ret.grad_input.data[1][1][1] = Div(args.grad_out.data[1][1][1], R(2))

----------------------------------------------------------------------------
(* Renormalizer *)

\* A tensor of any rank: its sizes and its elements by (1-based) index tuple.
IndexTuples(sizes) ==
    CASE Len(sizes) = 0 -> {<<>>}
      [] Len(sizes) = 1 -> {<<i>> : i \in 1..sizes[1]}
      [] Len(sizes) = 2 -> {<<i, j>> : i \in 1..sizes[1], j \in 1..sizes[2]}
      [] OTHER -> {<<i, j, k>> : i \in 1..sizes[1], j \in 1..sizes[2], k \in 1..sizes[3]}

NoOutput == [defined |-> FALSE, sizes |-> <<>>, data |-> <<>>]

\* A Scalar: a real value, or a complex one (its real part is kept).
RealScalar(v) == [complex |-> FALSE, value |-> v]

ComplexScalar(v) == [complex |-> TRUE, value |-> v]

isComplex(s) == s.complex

toDouble(s) == s.value

\* The error of a failed TORCH_CHECK of renorm.
RenormError(msg) == [kind |-> "renorm", arg |-> msg, expected |-> 0, actual |-> 0]

\* set_output(self.sizes(), self.options()): the output, allocated and unwritten.
set_output(sizes) ==
    [defined |-> TRUE, sizes |-> sizes, data |-> [x \in IndexTuples(sizes) |-> Uninitialized]]

\* A faulty variant of the meta function below: a negative maxnorm is let through.
renorm_meta_maxnorm_unchecked(self, p, dim, maxnorm) ==
    IF isComplex(p) THEN [error |-> RenormError("p must be real-valued"), out |-> NoOutput]
    ELSE IF ~Less(R(0), toDouble(p))
    THEN [error |-> RenormError("non-positive-norm not supported"), out |-> NoOutput]
    ELSE IF isComplex(maxnorm)
    THEN [error |-> RenormError("maxnorm must be real-valued"), out |-> NoOutput]
    ELSE IF ~(Len(self.sizes) > 1)
    THEN [error |-> RenormError("input needs at least 2 dimensions"), out |-> NoOutput]
    ELSE [error |-> NoError, out |-> set_output(self.sizes)]

\* TORCH_META_FUNC(renorm): the checks in order, then the output's shape.
renorm_meta(self, p, dim, maxnorm) ==
    IF isComplex(p) THEN [error |-> RenormError("p must be real-valued"), out |-> NoOutput]
    ELSE IF ~Less(R(0), toDouble(p))
    THEN [error |-> RenormError("non-positive-norm not supported"), out |-> NoOutput]
    ELSE IF isComplex(maxnorm)
    THEN [error |-> RenormError("maxnorm must be real-valued"), out |-> NoOutput]
    ELSE IF ~Geq(toDouble(maxnorm), R(0))
    THEN [error |-> RenormError("expected maxnorm to be >= 0"), out |-> NoOutput]
    ELSE IF ~(Len(self.sizes) > 1)
    THEN [error |-> RenormError("input needs at least 2 dimensions"), out |-> NoOutput]
    ELSE [error |-> NoError, out |-> set_output(self.sizes)]

\* c10::maybe_wrap_dim(dim, ndim): a negative dim counts from the end.
maybe_wrap_dim(dim, ndim) == IF dim < 0 THEN dim + ndim ELSE dim

\* A faulty variant of reduce_dims below: the first axis is erased, whatever dim is.
reduce_dims_erases_first(ndim, dim) == [k \in 1..(ndim - 1) |-> k]

\* iota over 0..ndim-1 with dim erased (0-based axes).
reduce_dims(ndim, dim) == [k \in 1..(ndim - 1) |-> IF k - 1 < dim THEN k - 1 ELSE k]

\* at::toAccumulateType(dtype, /*is_cuda=*/true)
toAccumulateType(dtype) == IF dtype \in {"Half", "BFloat16"} THEN "Float" ELSE dtype

\* The position of an index in a tensor reduced over rdims with keepdim, which is
\* also where a tensor of that shape is read when broadcast.
KeepIndex(x, rdims) ==
    [k \in 1..Len(x) |-> IF \E r \in 1..Len(rdims) : rdims[r] = k - 1 THEN 1 ELSE x[k]]

AbsV(x) == IF x[2] # 0 /\ x[1] < 0 THEN NegV(x) ELSE x

\* The sum of f over the index set S.
RECURSIVE SliceSum(_, _)
SliceSum(f, S) ==
    IF S = {} THEN R(0)
    ELSE CHOOSE r \in {AddV(f[x], SliceSum(f, S \ {x})) : x \in {CHOOSE y \in S : TRUE}} : TRUE

\* The largest of f over the index set S, 0 for the empty set.
RECURSIVE SliceMax(_, _)
SliceMax(f, S) ==
    IF S = {} THEN R(0)
    ELSE CHOOSE r \in {IF LessV(m, f[x]) \/ IsNaN(f[x]) THEN f[x] ELSE m :
                          x \in {CHOOSE y \in S : TRUE},
                          m \in {SliceMax(f, S \ {CHOOSE y \in S : TRUE})}} : TRUE

\* The p-norm of the elements of data at the indices S, for the orders 1, 2
\* and infinity; order 0 counts the non-zero elements.
vector_norm(data, S, p) ==
    CASE p = R(1) -> SliceSum([x \in S |-> AbsV(data[x])], S)
      [] p = R(2) -> Sqrt(SliceSum([x \in S |-> MulV(data[x], data[x])], S))
      [] p = PosInf -> SliceMax([x \in S |-> AbsV(data[x])], S)
      [] p = R(0) -> SliceSum([x \in S |-> IF IsZero(data[x]) THEN R(0) ELSE R(1)], S)
      [] OTHER -> NaN

\* at::linalg_vector_norm(self, p, reduce_dims, /*keepdim=*/true): one norm for
\* each index of the axes that are not reduced.
linalg_vector_norm(self, p, rdims) ==
    CHOOSE t \in
        {[defined |-> TRUE, sizes |-> ks,
          data |-> [q \in IndexTuples(ks) |->
                      vector_norm(self.data,
                                  {x \in IndexTuples(self.sizes) : KeepIndex(x, rdims) = q}, p)]] :
            ks \in {KeepIndex(self.sizes, rdims)}} : TRUE

\* renorm_scale_factor_stub: norm > maxnorm ? maxnorm / norm : 1
renorm_scale_factor(norm, maxnorm) ==
    [norm EXCEPT !.data = [q \in DOMAIN norm.data |->
                              IF Less(maxnorm, norm.data[q])
                              THEN Div(maxnorm, norm.data[q]) ELSE R(1)]]

\* at::mul_outf(self, factor, out): factor is broadcast over the reduced axes.
mul_outf(self, factor, rdims, out) ==
    [out EXCEPT !.data = [x \in IndexTuples(self.sizes) |->
                             Mul(self.data[x], factor.data[KeepIndex(x, rdims)])]]

\* TORCH_IMPL_FUNC(renorm_out): the norm of every slice along dim, the scale
\* factor of every slice, and the product written to out.
renorm_out(self, p, dim, maxnorm, out) ==
    CHOOSE r \in
        {[norm |-> norm, factor |-> renorm_scale_factor(norm, toDouble(maxnorm)),
          norm_dtype |-> toAccumulateType(self.dtype),
          out |-> mul_outf(self, renorm_scale_factor(norm, toDouble(maxnorm)), rdims, out)] :
            rdims \in {reduce_dims(Len(self.sizes), maybe_wrap_dim(dim, Len(self.sizes)))},
            norm \in {linalg_vector_norm(self, toDouble(p),
                         reduce_dims(Len(self.sizes), maybe_wrap_dim(dim, Len(self.sizes))))}} : TRUE

----------------------------------------------------------------------------
(* The renormalizer as a state machine: the meta function of renorm, then   *)
(* renorm_out on the output it declared                                     *)

\* Shapes of rank 0 to 3.
RenormShapes ==
    {<<>>} \cup {<<a>> : a \in 1..MaxL} \cup {<<a, b>> : a \in 1..MaxN, b \in 1..MaxL}
           \cup {<<a, b, c>> : a \in 1..MaxN, b \in 1..MaxC, c \in 1..MaxL}

\* The tensor whose element at x is k[1] + k[2]*(x[1]-1) + k[3]*(x[2]-1) + k[4]*(x[3]-1).
RampTensor(sizes, dtype, k) ==
    [defined |-> TRUE, sizes |-> sizes, dtype |-> dtype,
     data |-> [x \in IndexTuples(sizes) |->
                 R(k[1] + (IF Len(x) >= 1 THEN k[2] * (x[1] - 1) ELSE 0)
                        + (IF Len(x) >= 2 THEN k[3] * (x[2] - 1) ELSE 0)
                        + (IF Len(x) >= 3 THEN k[4] * (x[3] - 1) ELSE 0))]]

\* Rows (6, 8) and (0, 2); all zeros; columns (3, 4); rows (-3, 4) and (1, 8).
RenormData == {<<6, -6, 2, 0>>, <<0, 0, 0, 0>>, <<3, 1, 0, 0>>, <<-3, 4, 7, 0>>}

RenormOrders ==
    {ComplexScalar(R(2)), RealScalar(R(-1)), RealScalar(R(0)), RealScalar(NaN),
     RealScalar(R(1)), RealScalar(R(2)), RealScalar(PosInf)}

RenormMaxNorms ==
    {ComplexScalar(R(5)), RealScalar(R(-1)), RealScalar(NaN),
     RealScalar(R(0)), RealScalar(R(2)), RealScalar(R(5))}

\* dim is an axis of self, counted from either end.
DimInRange(c) ==
    IF Len(c.self.sizes) = 0 THEN c.dim = 0
    ELSE -Len(c.self.sizes) <= c.dim /\ c.dim < Len(c.self.sizes)

\* Every norm the call computes is a rational number (always so for the orders
\* other than 2).
NormsRepresentable(c) ==
    (c.p = RealScalar(R(2)) /\ Len(c.self.sizes) >= 1) =>
        \A rdims \in {reduce_dims(Len(c.self.sizes), maybe_wrap_dim(c.dim, Len(c.self.sizes)))} :
           \A q \in IndexTuples(KeepIndex(c.self.sizes, rdims)) :
              \A S \in {{x \in IndexTuples(c.self.sizes) : KeepIndex(x, rdims) = q}} :
                 \A n \in {vector_norm(c.self.data, S, R(2))} :
                    MulV(n, n) = SliceSum([x \in S |-> MulV(c.self.data[x], c.self.data[x])], S)

RenormCalls ==
    {c \in {[self |-> RampTensor(sizes, dtype, k), p |-> p, dim |-> dim, maxnorm |-> maxnorm] :
               sizes \in RenormShapes, dtype \in {"Float", "Half"}, k \in RenormData,
               p \in RenormOrders, dim \in -3..2, maxnorm \in RenormMaxNorms} :
        DimInRange(c) /\ NormsRepresentable(c)}

RenormIdle ==
    [op |-> "idle", error |-> NoError, out |-> NoOutput,
     norm |-> NoOutput, factor |-> NoOutput, norm_dtype |-> "none"]

RenormInit ==
    /\ args \in RenormCalls
    /\ running_mean = Undefined
    /\ running_var = Undefined
    /\ ret = RenormIdle
    /\ calls = 0

\* The meta function: it throws, or declares the output.
RenormMeta ==
    /\ ret.op = "idle"
    /\ \E r \in {renorm_meta(args.self, args.p, args.dim, args.maxnorm)} :
           ret' = [ret EXCEPT !.op = IF r.error = NoError THEN "renorm" ELSE "rejected",
                              !.error = r.error,
                              !.out = r.out]
    /\ calls' = calls + 1
    /\ UNCHANGED <<args, running_mean, running_var>>

\* The implementation, run on the declared output once the meta function passed.
RenormOut ==
    /\ ret.op = "renorm"
    /\ \E r \in {renorm_out(args.self, args.p, args.dim, args.maxnorm, ret.out)} :
           ret' = [ret EXCEPT !.op = "renorm_out",
                              !.out = r.out,
                              !.norm = r.norm,
                              !.factor = r.factor,
                              !.norm_dtype = r.norm_dtype]
    /\ calls' = calls + 1
    /\ UNCHANGED <<args, running_mean, running_var>>

RenormNext == RenormMeta \/ RenormOut

SpecRenorm == RenormInit /\ [][RenormNext]_vars

----------------------------------------------------------------------------
(* Properties of the renormalizer *)

RenormRank == Len(args.self.sizes)

\* A call the claim lists: p complex, p <= 0, maxnorm < 0, or fewer than 2 dimensions.
RenormListed ==
    \/ isComplex(args.p)
    \/ (~isComplex(args.p) /\ Geq(R(0), toDouble(args.p)))
    \/ (~isComplex(args.maxnorm) /\ Less(toDouble(args.maxnorm), R(0)))
    \/ RenormRank < 2

\* A call that passes every check of the meta function.
RenormChecksPass ==
    /\ ~isComplex(args.p) /\ Less(R(0), toDouble(args.p))
    /\ ~isComplex(args.maxnorm) /\ Geq(toDouble(args.maxnorm), R(0))
    /\ RenormRank >= 2

RenormRejected ==
    /\ ret.op = "rejected" /\ ret.error # NoError
    /\ ret.out = NoOutput /\ ret.norm = NoOutput /\ ret.factor = NoOutput

\* C12: once renorm has been called, a call where p is complex, p <= 0,
\* maxnorm < 0 or the input has fewer than 2 dimensions has been rejected with no
\* norm computed and no output produced, and stays so; a call passing all the
\* checks has an output of exactly the input's shape; no other call has an output.
C12_RenormRejects ==
    ret.op # "idle" =>
        /\ RenormListed => RenormRejected
        /\ RenormChecksPass =>
              /\ ret.op \in {"renorm", "renorm_out"} /\ ret.error = NoError
              /\ ret.out.defined /\ ret.out.sizes = args.self.sizes
              /\ DOMAIN ret.out.data = IndexTuples(args.self.sizes)
        /\ ~RenormChecksPass => RenormRejected

\* A matrix with p = 0 was rejected before anything was computed.
C12_Witness ==
    /\ ret.op = "rejected" /\ RenormRank = 2
    /\ args.p = RealScalar(R(0)) /\ args.maxnorm = RealScalar(R(5))
    /\ ret.error = RenormError("non-positive-norm not supported")
    /\ RenormRejected

\* A valid call on a 2 x 2 matrix was carried out and its output has shape 2 x 2.
C12_WitnessAccepted ==
    /\ ret.op = "renorm_out" /\ RenormChecksPass
    /\ args.self.sizes = <<2, 2>> /\ ret.out.sizes = <<2, 2>>

\* A vector with valid p and maxnorm was rejected for its rank.
C12_WitnessRank ==
    /\ ret.op = "rejected" /\ RenormRank = 1
    /\ args.p = RealScalar(R(2)) /\ args.maxnorm = RealScalar(R(5))
    /\ ret.error = RenormError("input needs at least 2 dimensions")

\* The axis (1-based) whose indices name the slices.
RenormAxis == (IF args.dim < 0 THEN args.dim + RenormRank ELSE args.dim) + 1

SliceOf(j) == {x \in IndexTuples(args.self.sizes) : x[RenormAxis] = j}

\* Where the norm of slice j sits in the tensor of norms.
NormIndex(j) == [k \in 1..RenormRank |-> IF k = RenormAxis THEN j ELSE 1]

\* The p-norm of slice j of t (p is 1, 2 or infinity).
SliceNorm(t, j) ==
    CASE toDouble(args.p) = R(1) ->
            SumFn([x \in SliceOf(j) |-> AbsV(t.data[x])], SliceOf(j))
      [] toDouble(args.p) = R(2) ->
            Sqrt(SumFn([x \in SliceOf(j) |-> Mul(t.data[x], t.data[x])], SliceOf(j)))
      [] OTHER ->
            CHOOSE m \in {AbsV(t.data[x]) : x \in SliceOf(j)} :
               \A x \in SliceOf(j) : ~Less(m, AbsV(t.data[x]))

\* maxNorm/norm if norm > maxNorm else 1
ScaleOf(j) ==
    IF Less(toDouble(args.maxnorm), SliceNorm(args.self, j))
    THEN Div(toDouble(args.maxnorm), SliceNorm(args.self, j))
    ELSE R(1)

RenormRan == ret.op = "renorm_out"

\* C13: renorm computes one p-norm per index along dim, over every other axis,
\* and multiplies every element by the scale factor of its own slice; a slice
\* whose norm exceeds maxNorm ends with norm maxNorm, a slice whose norm is at
\* most maxNorm is left unchanged, and no slice is scaled up.
C13_RenormClamps ==
    RenormRan =>
        /\ DOMAIN ret.norm.data = {NormIndex(j) : j \in 1..args.self.sizes[RenormAxis]}
        /\ \A j \in 1..args.self.sizes[RenormAxis] :
              /\ ret.norm.data[NormIndex(j)] = SliceNorm(args.self, j)
              /\ ret.factor.data[NormIndex(j)] = ScaleOf(j)
              /\ \A x \in SliceOf(j) : ret.out.data[x] = Mul(args.self.data[x], ScaleOf(j))
              /\ Less(toDouble(args.maxnorm), SliceNorm(args.self, j)) =>
                    SliceNorm(ret.out, j) = toDouble(args.maxnorm)
              /\ ~Less(toDouble(args.maxnorm), SliceNorm(args.self, j)) =>
                    \A x \in SliceOf(j) : ret.out.data[x] = args.self.data[x]
              /\ ~Less(SliceNorm(args.self, j), SliceNorm(ret.out, j))
              /\ ~Less(R(1), ScaleOf(j))

\* Rows of 2-norm 10 and 2, dim = 0, maxNorm = 5: row 0 is halved to norm 5 and
\* row 1 is unchanged.
C13_Witness ==
    /\ RenormRan /\ args.self.sizes = <<2, 2>> /\ args.dim = 0
    /\ args.p = RealScalar(R(2)) /\ args.maxnorm = RealScalar(R(5))
    /\ args.self.data[<<1, 1>>] = R(6) /\ args.self.data[<<1, 2>>] = R(8)
    /\ args.self.data[<<2, 1>>] = R(0) /\ args.self.data[<<2, 2>>] = R(2)
    /\ ret.norm.data[<<1, 1>>] = R(10) /\ ret.norm.data[<<2, 1>>] = R(2)
    /\ ret.factor.data[<<1, 1>>] = Frac(1, 2) /\ ret.factor.data[<<2, 1>>] = R(1)
    /\ ret.out.data[<<1, 1>>] = R(3) /\ ret.out.data[<<1, 2>>] = R(4)
    /\ ret.out.data[<<2, 1>>] = R(0) /\ ret.out.data[<<2, 2>>] = R(2)

\* Columns of a 2 x 2 matrix (dim = -1) of 2-norm 5 clamped to 2.
C13_WitnessColumns ==
    /\ RenormRan /\ args.self.sizes = <<2, 2>> /\ args.dim = -1
    /\ args.p = RealScalar(R(2)) /\ args.maxnorm = RealScalar(R(2))
    /\ ret.norm.data[<<1, 2>>] = R(5)
    /\ ret.out.data[<<2, 2>>] = Frac(8, 5)

----------------------------------------------------------------------------
(* The native CPU functions as a state machine: any sequence of training    *)
(* forward, evaluation forward and evaluation backward calls on the same    *)
(* tensors and running buffers                                              *)

\* Every shape up to the bounds in every layout, with constant and with rising
\* inputs, affine parameters and running buffers both present or both absent, and
\* running variances that put running_var + eps at zero and above it.
NativeCalls ==
    {[input |-> MkInput(N, C, L, layout, 1, step),
      grad_out |-> MkInput(N, C, L, "contiguous", 1, 1),
      weight |-> KindVec(affine, Ramp(C, 2, 1)),
      bias |-> KindVec(affine, Ramp(C, 3, 2)),
      running_mean |-> KindVec(stats, Ramp(C, 1, 1)),
      running_var |-> KindVec(stats, Ramp(C, v, v + 1)),
      momentum |-> Frac(1, 10), eps |-> e] :
        N \in 1..MaxN, C \in 1..MaxC, L \in 1..MaxL, layout \in Layouts, step \in {0, 1},
        affine \in {"absent", "contiguous"}, stats \in {"absent", "contiguous"},
        v \in {0, 4}, e \in {R(0), R(5)}}

NativeIdle ==
    [op |-> "idle", path |-> "none", output |-> NoTensor,
     save_mean |-> Undefined, save_invstd |-> Undefined,
     prev_mean |-> Undefined, prev_var |-> Undefined,
     written |-> {}, grad_input |-> Unallocated]

NativeInit ==
    /\ args \in NativeCalls
    /\ running_mean = args.running_mean
    /\ running_var = args.running_var
    /\ ret = NativeIdle
    /\ calls = 0

\* batch_norm_cpu with train = true.
ForwardTraining ==
    /\ calls < MaxCalls
    /\ \E r \in {batch_norm_cpu(args.input, args.weight, args.bias, running_mean, running_var,
                               TRUE, args.momentum, args.eps)} :
           /\ ret' = [NativeIdle EXCEPT !.op = "training", !.path = r.path,
                                        !.output = r.output,
                                        !.save_mean = r.save_mean,
                                        !.save_invstd = r.save_invstd,
                                        !.prev_mean = running_mean,
                                        !.prev_var = running_var,
                                        !.written = batch_norm_cpu_written(
                                                        running_mean, running_var, TRUE)]
           /\ running_mean' = r.running_mean
           /\ running_var' = r.running_var
    /\ calls' = calls + 1
    /\ UNCHANGED args

\* batch_norm_cpu with train = false, which needs both running statistics.
ForwardEval ==
    /\ calls < MaxCalls
    /\ running_mean.defined /\ running_var.defined
    /\ \E r \in {batch_norm_cpu(args.input, args.weight, args.bias, running_mean, running_var,
                               FALSE, args.momentum, args.eps)} :
           /\ ret' = [NativeIdle EXCEPT !.op = "evaluation", !.path = r.path,
                                        !.output = r.output,
                                        !.save_mean = r.save_mean,
                                        !.save_invstd = r.save_invstd,
                                        !.prev_mean = running_mean,
                                        !.prev_var = running_var,
                                        !.written = batch_norm_cpu_written(
                                                        running_mean, running_var, FALSE)]
           /\ running_mean' = r.running_mean
           /\ running_var' = r.running_var
    /\ calls' = calls + 1
    /\ UNCHANGED args

\* batch_norm_backward_cpu with train = false, asked for grad_input.
BackwardEval ==
    /\ calls < MaxCalls
    /\ running_mean.defined /\ running_var.defined
    /\ \E g \in {batch_norm_backward_cpu(args.grad_out, args.input, args.weight,
                                        running_mean, running_var, Undefined, Undefined,
                                        FALSE, args.eps, <<TRUE, FALSE, FALSE>>)} :
           ret' = [NativeIdle EXCEPT !.op = "backward",
                                     !.prev_mean = running_mean,
                                     !.prev_var = running_var,
                                     !.grad_input = g.grad_input]
    /\ calls' = calls + 1
    /\ UNCHANGED <<args, running_mean, running_var>>

NativeNext == ForwardTraining \/ ForwardEval \/ BackwardEval

SpecNative == NativeInit /\ [][NativeNext]_vars

----------------------------------------------------------------------------
(* Properties of the native CPU forward and of the zero-variance guard *)

\* The biased variance of channel c of the batch: varSum[c]/n.
BiasedVarOf(c) == Div(VarSumOf(c), R(Count))

\* The inverse std the training transform is documented to use.
GuardedInvStdOf(c) ==
    IF IsZero(BiasedVarOf(c)) /\ IsZero(args.eps) THEN R(0)
    ELSE Div(R(1), Sqrt(Add(BiasedVarOf(c), args.eps)))

\* ((input - mean)*invstd)*weight + bias at element x.
TransformAt(x, mean, invstd) ==
    Add(Mul(Mul(Sub(args.input.data[x[1]][x[2]][x[3]], mean), invstd), WeightOf(x[2])),
        BiasOf(x[2]))

\* C14: batch_norm_cpu writes to none of the caller's tensors but running_mean
\* and running_var, and to those only in training mode: after an evaluation call,
\* wherever it comes in a sequence of calls, the two buffers are what they were
\* before it and save_mean and save_invstd are absent; after a training call
\* save_mean and save_invstd are the batch mean and the inverse std of the batch,
\* and the output is the transform of the input by these two.
C14_ForwardFrame ==
    /\ ret.written \subseteq {"running_mean", "running_var"}
    /\ ret.op = "evaluation" =>
          /\ ret.written = {}
          /\ running_mean = ret.prev_mean /\ running_var = ret.prev_var
          /\ ret.save_mean = Undefined /\ ret.save_invstd = Undefined
    /\ ret.op = "training" =>
          /\ ret.save_mean.defined /\ ret.save_invstd.defined
          /\ \A c \in Channels :
                /\ ret.save_mean.data[c] = BatchMeanOf(c)
                /\ ret.save_invstd.data[c] = GuardedInvStdOf(c)
          /\ \A x \in Indices(args.input) :
                ret.output.data[x[1]][x[2]][x[3]] =
                   TransformAt(x, ret.save_mean.data[x[2]], ret.save_invstd.data[x[2]])
          /\ ~running_mean.defined => running_mean = ret.prev_mean
          /\ ~running_var.defined => running_var = ret.prev_var

\* An evaluation call made after a training call that changed the buffers left
\* them as the training call had.
C14_Witness ==
    /\ calls = 2 /\ ret.op = "evaluation"
    /\ running_mean.defined /\ running_mean # args.running_mean
    /\ running_mean = ret.prev_mean /\ running_var = ret.prev_var
    /\ ret.save_mean = Undefined /\ ret.output # NoTensor

\* A training call changed both buffers and returned the batch statistics.
C14_WitnessTraining ==
    /\ ret.op = "training" /\ ret.written = {"running_mean", "running_var"}
    /\ running_mean # ret.prev_mean /\ running_var # ret.prev_var
    /\ args.input.N = 2 /\ args.input.L = 2
    /\ ret.save_mean.data[1] = BatchMeanOf(1)

\* 1/sqrt(running_var[c] + eps), whatever the sum is.
RunningInvStdOf(c) == Div(R(1), Sqrt(Add(running_var.data[c], args.eps)))

\* The evaluation output at x: the fused form on the two fast paths, the
\* broadcast form otherwise.
EvalOutputAt(x) ==
    IF ret.path = "generic"
    THEN TransformAt(x, running_mean.data[x[2]], RunningInvStdOf(x[2]))
    ELSE Add(Mul(args.input.data[x[1]][x[2]][x[3]], Mul(RunningInvStdOf(x[2]), WeightOf(x[2]))),
             Sub(BiasOf(x[2]),
                 Mul(Mul(running_mean.data[x[2]], RunningInvStdOf(x[2])), WeightOf(x[2]))))

\* C17: the inverse std saved by a training call is 1/sqrt(var + eps), except
\* that it is 0 when the biased variance and eps are both 0: it is always
\* finite, and the output of such a channel is its bias. The evaluation paths
\* and the evaluation branch of the backward engine use 1/sqrt(running_var + eps)
\* as it comes, which is infinite when running_var + eps is 0.
C17_ZeroVarianceGuard ==
    /\ ret.op = "training" =>
          \A c \in Channels :
             /\ ret.save_invstd.data[c] = GuardedInvStdOf(c)
             /\ IsFinite(ret.save_invstd.data[c])
             /\ (IsZero(BiasedVarOf(c)) /\ IsZero(args.eps)) =>
                   /\ ret.save_invstd.data[c] = R(0)
                   /\ \A x \in Indices(args.input) :
                         x[2] = c => ret.output.data[x[1]][x[2]][x[3]] = BiasOf(c)
    /\ ret.op = "evaluation" =>
          \A x \in Indices(args.input) :
             ret.output.data[x[1]][x[2]][x[3]] = EvalOutputAt(x)
    /\ ret.op = "backward" =>
          \A x \in Indices(args.input) :
             ret.grad_input.data[x[1]][x[2]][x[3]] =
                Mul(Mul(args.grad_out.data[x[1]][x[2]][x[3]], RunningInvStdOf(x[2])),
                    WeightOf(x[2]))

\* A training call on a constant batch of more than one element with eps = 0:
\* the saved inverse std is 0 and the output is the bias.
C17_Witness ==
    /\ ret.op = "training" /\ args.eps = R(0) /\ Count > 1
    /\ IsZero(BiasedVarOf(1)) /\ args.bias.defined
    /\ ret.save_invstd.data[1] = R(0)
    /\ ret.output.data[1][1][1] = args.bias.data[1]

\* An evaluation call with running_var + eps = 0: the output is not finite.
C17_WitnessEval ==
    /\ ret.op = "evaluation" /\ IsZero(Add(running_var.data[1], args.eps))
    /\ RunningInvStdOf(1) = PosInf
    /\ ~IsFinite(ret.output.data[1][1][1])

\* A backward evaluation call with running_var + eps = 0: grad_input is infinite.
C17_WitnessBackward ==
    /\ ret.op = "backward" /\ IsZero(Add(running_var.data[1], args.eps))
    /\ ret.grad_input.data[1][1][1] = PosInf

----------------------------------------------------------------------------
(* parallel_for over the channels *)

\* parallel_for(0, n_input, 1, body) cuts the channel range into contiguous
\* chunks [b_begin, b_end), one per task. cuts holds the channels after which a
\* new chunk starts; a task is named by the b_begin of its chunk (channels are
\* numbered from 1 here).
task_begins(cuts) == {1} \cup {k + 1 : k \in cuts}

\* b_end of the chunk that starts at b: the next b_begin, or one past the last channel.
chunk_end(cuts, n_input, b) ==
    CHOOSE e \in (task_begins(cuts) \cup {n_input + 1}) :
        /\ e > b
        /\ \A e2 \in (task_begins(cuts) \cup {n_input + 1}) : e2 > b => e <= e2

\* A faulty variant of the loop start below: every task starts at the first channel.
loop_first_from_zero(b_begin) == 1

\* for (int64_t f = b_begin; f < b_end; ++f): the first f of a task.
loop_first(b_begin) == b_begin

\* The body of the collector's loop for channel f, on the tensors as they are.
update_stats_channel(st, a, f) ==
    [save_var_transform |->
        [st.save_var_transform EXCEPT
            !.data[f] = VarTransform("InvStd", biased_var(a.input, f), a.eps)],
     running_mean |->
        IF st.running_mean.defined
        THEN [st.running_mean EXCEPT
                 !.data[f] = blend(a.momentum, st.save_mean.data[f], st.running_mean.data[f])]
        ELSE st.running_mean,
     running_var |->
        IF st.running_var.defined
        THEN [st.running_var EXCEPT
                 !.data[f] = blend(a.momentum, unbiased_var(a.input, f), st.running_var.data[f])]
        ELSE st.running_var]

\* The locations the body for channel f writes: <<tensor, channel>>.
channel_writes(a, f) ==
    IF a.kind = "update_stats"
    THEN {<<"save_var_transform", f>>}
         \cup (IF a.running_mean.defined THEN {<<"running_mean", f>>} ELSE {})
         \cup (IF a.running_var.defined THEN {<<"running_var", f>>} ELSE {})
    ELSE (IF a.grad_input_mask[1] THEN {<<"grad_input", f>>} ELSE {})
         \cup (IF a.grad_input_mask[2] THEN {<<"grad_weight", f>>} ELSE {})
         \cup (IF a.grad_input_mask[3] THEN {<<"grad_bias", f>>} ELSE {})

\* The locations the body for channel f reads.
channel_reads(a, f) ==
    IF a.kind = "update_stats"
    THEN {<<"input", f>>, <<"save_mean", f>>}
         \cup (IF a.running_mean.defined THEN {<<"running_mean", f>>} ELSE {})
         \cup (IF a.running_var.defined THEN {<<"running_var", f>>} ELSE {})
    ELSE {<<"input", f>>, <<"grad_out", f>>, <<"sum", f>>}
         \cup (IF a.weight.defined THEN {<<"weight", f>>} ELSE {})
         \cup (IF a.train THEN {<<"save_mean", f>>, <<"save_invstd", f>>}
               ELSE {<<"running_mean", f>>, <<"running_var", f>>})
         \cup (IF a.grad_input_mask[1] /\ a.train THEN {<<"grad_input", f>>} ELSE {})

\* The accesses of task t running the body for channel f.
channel_accesses(a, t, f) ==
    {<<t, loc, "write">> : loc \in channel_writes(a, f)}
        \cup {<<t, loc, "read">> : loc \in channel_reads(a, f)}

----------------------------------------------------------------------------
(* The two parallel loops as a state machine: the part before the loop, one *)
(* step per task and channel in any order, and the return                   *)

\* Calls of the collector and of the backward engine on up to MaxC + 1 channels,
\* under every partition of the channels.
ParCalls ==
    {c \in {[kind |-> kind,
             input |-> MkInput(N, C, L, "contiguous", 1, 2),
             grad_out |-> MkInput(N, C, L, "contiguous", 1, 1),
             weight |-> Vec(Ramp(C, 2, 1)),
             running_mean |-> KindVec(stats, Ramp(C, 1, 1)),
             running_var |-> KindVec(stats, Ramp(C, 4, 5)),
             save_mean |-> Vec([f \in 1..C |-> R(f)]),
             save_invstd |-> Vec([f \in 1..C |-> Frac(1, f + 1)]),
             train |-> tr, momentum |-> Frac(1, 10), eps |-> R(5),
             grad_input_mask |-> mask, cuts |-> cuts] :
                kind \in {"update_stats", "backward"},
                N \in 1..MaxN, C \in 1..(MaxC + 1), L \in 1..MaxL,
                stats \in {"absent", "contiguous"}, tr \in BOOLEAN,
                mask \in {<<TRUE, TRUE, TRUE>>, <<TRUE, FALSE, FALSE>>, <<FALSE, TRUE, TRUE>>},
                cuts \in SUBSET (1..MaxC)} :
        /\ c.cuts \subseteq 1..(c.input.C - 1)
        /\ c.kind = "update_stats" =>
              (c.train /\ c.grad_input_mask = <<TRUE, TRUE, TRUE>>)
        /\ (c.kind = "backward" /\ ~c.train) => c.running_mean.defined}

ParIdle ==
    [op |-> "idle", next |-> <<>>, log |-> {},
     save_mean |-> Undefined, save_var_transform |-> Undefined,
     grad_input |-> Unallocated, grad_weight |-> Unallocated, grad_bias |-> Unallocated]

ParInit ==
    /\ args \in ParCalls
    /\ running_mean = args.running_mean
    /\ running_var = args.running_var
    /\ ret = ParIdle
    /\ calls = 0

\* What each function does before its loop, and the tasks at their first channel.
ParallelBegin ==
    /\ ret.op = "idle"
    /\ \E g \in {backward_allocate(args)} :
          ret' = [ret EXCEPT
                    !.op = "loop",
                    !.next = [b \in task_begins(args.cuts) |-> loop_first(b)],
                    !.save_mean =
                        IF args.kind = "update_stats"
                        THEN Vec([f \in 1..args.input.C |-> batch_mean(args.input, f)])
                        ELSE args.save_mean,
                    !.save_var_transform =
                        IF args.kind = "update_stats"
                        THEN Vec([f \in 1..args.input.C |-> Uninitialized])
                        ELSE Undefined,
                    !.grad_input =
                        IF args.kind = "backward" THEN g.grad_input ELSE Unallocated,
                    !.grad_weight =
                        IF args.kind = "backward" THEN g.grad_weight ELSE Unallocated,
                    !.grad_bias =
                        IF args.kind = "backward" THEN g.grad_bias ELSE Unallocated]
    /\ UNCHANGED <<args, running_mean, running_var, calls>>

\* A task runs the body of the collector's loop for its next channel.
UpdateStatsStep ==
    /\ ret.op = "loop" /\ args.kind = "update_stats"
    /\ \E t \in DOMAIN ret.next :
          /\ ret.next[t] < chunk_end(args.cuts, args.input.C, t)
          /\ \E st \in {update_stats_channel(
                           [save_mean |-> ret.save_mean,
                            save_var_transform |-> ret.save_var_transform,
                            running_mean |-> running_mean,
                            running_var |-> running_var], args, ret.next[t])} :
                /\ ret' = [ret EXCEPT
                             !.next[t] = @ + 1,
                             !.save_var_transform = st.save_var_transform,
                             !.log = @ \cup channel_accesses(args, t, ret.next[t])]
                /\ running_mean' = st.running_mean
                /\ running_var' = st.running_var
    /\ UNCHANGED <<args, calls>>

\* A task runs the body of the backward engine's loop for its next channel.
BackwardStep ==
    /\ ret.op = "loop" /\ args.kind = "backward"
    /\ \E t \in DOMAIN ret.next :
          /\ ret.next[t] < chunk_end(args.cuts, args.input.C, t)
          /\ \E g \in {backward_channel(
                          [grad_input |-> ret.grad_input, grad_weight |-> ret.grad_weight,
                           grad_bias |-> ret.grad_bias],
                          [args EXCEPT !.running_mean = running_mean,
                                       !.running_var = running_var], ret.next[t])} :
                ret' = [ret EXCEPT
                          !.next[t] = @ + 1,
                          !.grad_input = g.grad_input,
                          !.grad_weight = g.grad_weight,
                          !.grad_bias = g.grad_bias,
                          !.log = @ \cup channel_accesses(args, t, ret.next[t])]
    /\ UNCHANGED <<args, running_mean, running_var, calls>>

\* parallel_for returns once every task has run its chunk; the function returns.
ParallelEnd ==
    /\ ret.op = "loop"
    /\ \A t \in DOMAIN ret.next : ret.next[t] >= chunk_end(args.cuts, args.input.C, t)
    /\ ret' = [ret EXCEPT !.op = "done"]
    /\ calls' = calls + 1
    /\ UNCHANGED <<args, running_mean, running_var>>

ParNext == ParallelBegin \/ UpdateStatsStep \/ BackwardStep \/ ParallelEnd

SpecPar == ParInit /\ [][ParNext]_vars

----------------------------------------------------------------------------
(* Properties of the parallel loops *)

\* The chunk of task t: the channels it owns.
OwnedBy(t) ==
    {f \in 1..args.input.C :
        /\ t <= f
        /\ \A b \in ({1} \cup {k + 1 : k \in args.cuts}) : b > t => f < b}

\* Two accesses conflict when different tasks touch one location and one writes.
Conflict(x, y) == x[1] # y[1] /\ x[2] = y[2] /\ (x[3] = "write" \/ y[3] = "write")

\* What the function returns when its loop is run by one task over all channels.
SequentialResult ==
    IF args.kind = "update_stats"
    THEN batch_norm_cpu_update_stats_template(
             "InvStd", args.input, args.running_mean, args.running_var,
             args.momentum, args.eps)
    ELSE batch_norm_backward_cpu_template(args)

\* C15: the chunks are disjoint, contiguous and cover the channels; every write
\* of a task is to a location of a channel it owns; no two tasks write the same
\* location and none reads a location another writes; and whatever the
\* partition and the order of the steps, the function returns what one task
\* running all the channels in order returns.
C15_ChannelOwnership ==
    ret.op # "idle" =>
        /\ \A f \in 1..args.input.C : \E t \in DOMAIN ret.next : f \in OwnedBy(t)
        /\ \A t, u \in DOMAIN ret.next : t # u => OwnedBy(t) \cap OwnedBy(u) = {}
        /\ \A t \in DOMAIN ret.next :
              \A f, h \in OwnedBy(t) : \A m \in f..h : m \in OwnedBy(t)
        /\ \A x \in ret.log : x[3] = "write" => x[2][2] \in OwnedBy(x[1])
        /\ \A x, y \in ret.log : ~Conflict(x, y)
        /\ ret.op = "done" =>
              IF args.kind = "update_stats"
              THEN /\ ret.save_mean = SequentialResult.save_mean
                   /\ ret.save_var_transform = SequentialResult.save_var_transform
                   /\ running_mean = SequentialResult.running_mean
                   /\ running_var = SequentialResult.running_var
              ELSE /\ ret.grad_input = SequentialResult.grad_input
                   /\ ret.grad_weight = SequentialResult.grad_weight
                   /\ ret.grad_bias = SequentialResult.grad_bias

\* The collector over three channels cut into three one-channel chunks, finished
\* with the second task having run before the first.
C15_Witness ==
    /\ ret.op = "done" /\ args.kind = "update_stats"
    /\ args.input.C = 3 /\ args.cuts = {1, 2}
    /\ running_mean.defined /\ running_mean # args.running_mean
    /\ Cardinality({x \in ret.log : x[3] = "write"}) = 9

\* The backward engine in the middle of its loop: the task of the second chunk
\* has written its channel and the task of the first chunk has not started.
C15_WitnessBackward ==
    /\ ret.op = "loop" /\ args.kind = "backward" /\ args.train
    /\ args.input.C = 3 /\ args.cuts = {1}
    /\ ret.next[1] = 1 /\ ret.next[2] = 3
    /\ <<2, <<"grad_input", 2>>, "write">> \in ret.log
    /\ ret.grad_weight.writes = <<0, 1, 0>>

----------------------------------------------------------------------------
(* batch_norm and instance_norm *)

\* A faulty variant of repeat_if_defined below: each element is repeated in
\* place (1 1 2 2) instead of the whole vector being tiled (1 2 1 2).
repeat_if_defined_interleaved(t, repeat) ==
    IF t.defined
    THEN Vec([k \in 1..(repeat * numel(t)) |-> t.data[((k - 1) \div repeat) + 1]])
    ELSE t

\* t.repeat(repeat) for a defined t: the vector tiled repeat times.
repeat_if_defined(t, repeat) ==
    IF t.defined
    THEN Vec([k \in 1..(repeat * numel(t)) |-> t.data[((k - 1) % numel(t)) + 1]])
    ELSE t

\* at::batch_norm on a CPU float input: the input itself (scaled and shifted by
\* weight[0] and bias[0]) when it is empty, else _batch_norm_impl_index.
batch_norm(input, weight, bias, rmean, rvar, training, momentum, eps, cudnn_enabled) ==
    IF TensorNumel(input) = 0
    THEN [status |-> "ok", error |-> NoError, output |-> input,
          running_mean |-> rmean, running_var |-> rvar]
    ELSE CHOOSE x \in
            {[status |-> r.status, error |-> r.error, output |-> r.output,
              running_mean |-> r.running_mean, running_var |-> r.running_var] :
                r \in {_batch_norm_impl_index(
                          [is_cuda |-> FALSE, scalar_type |-> "Float",
                           weight_scalar_type |-> IF weight.defined THEN "Float" ELSE "Undefined",
                           dim |-> 3, size0 |-> input.N, num_features |-> input.C,
                           input |-> input, weight |-> weight, bias |-> bias,
                           running_mean |-> rmean, running_var |-> rvar,
                           training |-> training, momentum |-> momentum, eps |-> eps,
                           cudnn_enabled |-> cudnn_enabled, hooks |-> AllCapableHooks],
                          rmean, rvar)}} : TRUE

\* input.contiguous().view(shape) with shape[0] = 1 and shape[1] = b * c
input_reshaped(input) ==
    [N |-> 1, C |-> input.N * input.C, L |-> input.L, layout |-> "contiguous",
     data |-> [n \in {1} |->
                 [k \in 1..(input.N * input.C) |->
                     input.data[((k - 1) \div input.C) + 1][((k - 1) % input.C) + 1]]]]

\* running_.view({ b, c }).mean(0, false): per channel, the mean over the instances.
mean_over_instances(running_, b, c) ==
    Vec([j \in 1..c |->
            Div(Accumulate(R(0), [i \in 1..b |-> running_.data[(i - 1) * c + j]]), R(b))])

\* out.view(input.sizes())
view_as_input(out, input) ==
    [input EXCEPT !.layout = "contiguous",
                  !.data = [i \in 1..input.N |-> [j \in 1..input.C |->
                               out.data[1][(i - 1) * input.C + j]]]]

instance_norm(input, weight, bias, rmean, rvar, use_input_stats, momentum, eps, cudnn_enabled) ==
    IF ~(use_input_stats \/ (rmean.defined /\ rvar.defined))
    THEN [status |-> "error",
          error |-> [kind |-> "instance_norm", arg |-> "running_mean and running_var",
                     expected |-> 0, actual |-> 0],
          output |-> NoTensor, running_mean |-> rmean, running_var |-> rvar]
    ELSE CHOOSE x \in
            {IF r.status # "ok"
             THEN [r EXCEPT !.running_mean = rmean, !.running_var = rvar]
             ELSE [r EXCEPT
                     !.output = view_as_input(r.output, input),
                     !.running_mean =
                         IF rmean.defined
                         THEN mean_over_instances(r.running_mean, input.N, input.C)
                         ELSE rmean,
                     !.running_var =
                         IF rvar.defined
                         THEN mean_over_instances(r.running_var, input.N, input.C)
                         ELSE rvar] :
                r \in {batch_norm(input_reshaped(input),
                                  repeat_if_defined(weight, input.N),
                                  repeat_if_defined(bias, input.N),
                                  repeat_if_defined(rmean, input.N),
                                  repeat_if_defined(rvar, input.N),
                                  use_input_stats, momentum, eps, cudnn_enabled)}} : TRUE

----------------------------------------------------------------------------
(* instance_norm as a state machine: calls on the same tensors and buffers *)

InstCalls ==
    {[input |-> MkInput(N, C, L, layout, 1, 2),
      weight |-> KindVec(w, Ramp(C, 2, 1)),
      bias |-> KindVec(b, Ramp(C, 3, 2)),
      running_mean |-> KindVec(rm, Ramp(C, 1, 1)),
      running_var |-> KindVec(rv, Ramp(C, 4, 5)),
      use_input_stats |-> u, momentum |-> Frac(1, 10), eps |-> e] :
        N \in 1..MaxN, C \in 1..MaxC, L \in 1..MaxL, layout \in {"contiguous", "strided"},
        w \in {"absent", "contiguous"}, b \in {"absent", "contiguous"},
        rm \in {"absent", "contiguous"}, rv \in {"absent", "contiguous"},
        u \in BOOLEAN, e \in {R(0), R(5)}}

InstIdle ==
    [op |-> "idle", status |-> "idle", error |-> NoError, output |-> NoTensor,
     prev_mean |-> Undefined, prev_var |-> Undefined]

InstInit ==
    /\ args \in InstCalls
    /\ running_mean = args.running_mean
    /\ running_var = args.running_var
    /\ ret = InstIdle
    /\ calls = 0

\* instance_norm on the arguments and the buffers as the last call left them.
InstanceNorm ==
    /\ calls < MaxCalls
    /\ \E r \in {instance_norm(args.input, args.weight, args.bias, running_mean, running_var,
                              args.use_input_stats, args.momentum, args.eps, TRUE)} :
           /\ ret' = [op |-> "instance_norm", status |-> r.status, error |-> r.error,
                      output |-> r.output,
                      prev_mean |-> running_mean, prev_var |-> running_var]
           /\ running_mean' = r.running_mean
           /\ running_var' = r.running_var
    /\ calls' = calls + 1
    /\ UNCHANGED args

InstNext == InstanceNorm

SpecInst == InstInit /\ [][InstNext]_vars

----------------------------------------------------------------------------
(* Properties of instance_norm *)

Positions == 1..args.input.L

\* The mean of instance (i, j) over its positions.
InstMeanOf(i, j) ==
    Div(SumFn([l \in Positions |-> args.input.data[i][j][l]], Positions), R(args.input.L))

\* The sum of squared deviations of instance (i, j) from its mean.
InstVarSumOf(i, j) ==
    SumFn([l \in Positions |->
              Mul(Sub(args.input.data[i][j][l], InstMeanOf(i, j)),
                  Sub(args.input.data[i][j][l], InstMeanOf(i, j)))], Positions)

\* The inverse std batch_norm uses for instance (i, j).
InstInvStdOf(i, j) ==
    IF args.use_input_stats
    THEN (IF IsZero(InstVarSumOf(i, j)) /\ IsZero(args.eps) THEN R(0)
          ELSE Div(R(1), Sqrt(Add(Div(InstVarSumOf(i, j), R(args.input.L)), args.eps))))
    ELSE Div(R(1), Sqrt(Add(ret.prev_var.data[j], args.eps)))

\* batch_norm of instance (i, j) taken as a channel of its own, with the weight,
\* bias and running statistics of channel j.
InstOutputAt(i, j, l) ==
    IF args.use_input_stats
    THEN Add(Mul(Mul(Sub(args.input.data[i][j][l], InstMeanOf(i, j)), InstInvStdOf(i, j)),
                 WeightOf(j)), BiasOf(j))
    ELSE Add(Mul(args.input.data[i][j][l], Mul(InstInvStdOf(i, j), WeightOf(j))),
             Sub(BiasOf(j),
                 Mul(Mul(ret.prev_mean.data[j], InstInvStdOf(i, j)), WeightOf(j))))

\* The mean over the instances i of f[i].
MeanOverInstances(f) ==
    Div(SumFn(f, 1..args.input.N), R(args.input.N))

InstMissingStats ==
    ~args.use_input_stats /\ ~(ret.prev_mean.defined /\ ret.prev_var.defined)

\* C16: instance_norm fails, touching nothing, when use_input_stats is false and
\* running_mean or running_var is absent. Otherwise every instance (i, j) is
\* normalized as a channel of its own with the weight, bias and running
\* statistics of channel j, the output has the input's shape, each present
\* running statistic of channel j becomes the mean over the b instances of the
\* updated copies, an absent one stays absent, and with use_input_stats false
\* both keep their values.
C16_InstanceNorm ==
    ret.op = "instance_norm" =>
        /\ InstMissingStats <=> ret.status = "error"
        /\ ret.status = "error" =>
              /\ ret.output = NoTensor
              /\ running_mean = ret.prev_mean /\ running_var = ret.prev_var
        /\ ret.status = "ok" =>
              /\ ret.output.N = args.input.N /\ ret.output.C = args.input.C
              /\ ret.output.L = args.input.L
              /\ \A x \in Indices(args.input) :
                    ret.output.data[x[1]][x[2]][x[3]] = InstOutputAt(x[1], x[2], x[3])
              /\ running_mean.defined = ret.prev_mean.defined
              /\ running_var.defined = ret.prev_var.defined
              /\ ~args.use_input_stats =>
                    running_mean = ret.prev_mean /\ running_var = ret.prev_var
              /\ (args.use_input_stats /\ running_mean.defined) =>
                    \A j \in Channels :
                       running_mean.data[j] =
                          MeanOverInstances([i \in 1..args.input.N |->
                              BlendOnce(args.momentum, InstMeanOf(i, j),
                                        ret.prev_mean.data[j])])
              /\ (args.use_input_stats /\ running_var.defined) =>
                    \A j \in Channels :
                       running_var.data[j] =
                          MeanOverInstances([i \in 1..args.input.N |->
                              BlendOnce(args.momentum,
                                        Div(InstVarSumOf(i, j), R(args.input.L - 1)),
                                        ret.prev_var.data[j])])

\* Two instances of two channels with input statistics: the running mean of
\* channel 2 is the mean of the two instances' blends, and the output of
\* instance (2, 2) uses weight[2] and bias[2].
C16_Witness ==
    /\ ret.op = "instance_norm" /\ ret.status = "ok" /\ args.use_input_stats
    /\ args.input.N = 2 /\ args.input.C = 2 /\ args.input.L = 2
    /\ args.weight.defined /\ args.bias.defined
    /\ running_mean.defined /\ running_var.defined
    /\ InstMeanOf(1, 2) # InstMeanOf(2, 2)
    /\ running_mean.data[2] # ret.prev_mean.data[2]
    /\ ret.output.data[2][2][1] = InstOutputAt(2, 2, 1)
    /\ ret.output.data[2][2][1] # ret.output.data[2][1][1]

\* A call without input statistics and without running_var failed.
C16_WitnessMissing ==
    /\ ret.op = "instance_norm" /\ ret.status = "error"
    /\ ~args.use_input_stats /\ args.running_mean.defined /\ ~args.running_var.defined
    /\ running_mean = args.running_mean

\* A call without input statistics on present buffers left them as they were.
C16_WitnessKept ==
    /\ ret.op = "instance_norm" /\ ret.status = "ok" /\ ~args.use_input_stats
    /\ args.input.N = 2 /\ args.input.C = 2
    /\ running_mean = args.running_mean /\ running_var = args.running_var
    /\ ret.output.data[2][2][1] = InstOutputAt(2, 2, 1)

====
